---------------------------- MODULE Spec2Model ----------------------------
(***************************************************************************)
(* Model of the kit request gateways.                                      *)
(*                                                                         *)
(*   - KitServerLogic and serve.call_tool   (src/src/kit/mcp/server.py)    *)
(*   - the FastAPI application              (src/src/kit/api/app.py)       *)
(*                                                                         *)
(* Paths are sequences of components; their string form is a sequence of   *)
(* characters, so that str.startswith and Path.relative_to are different   *)
(* tests, as they are in Python.                                           *)
(***************************************************************************)
EXTENDS Integers, Sequences, FiniteSets, TLC

VARIABLES repos, analyzers, file_path, last, store, cache, deleted, remembered, resp,
          scenario, summarized, reviewer, review, cost_tracker, parsed,
          invocation, cli

mcpVars == <<repos, analyzers, file_path, last>>
httpVars == <<store, cache, deleted, remembered, resp>>
libVars == <<scenario, summarized>>
cliVars == <<invocation, cli>>
prVars == <<reviewer, review, cost_tracker, parsed, invocation, cli>>
vars == <<repos, analyzers, file_path, last, store, cache, deleted, remembered, resp,
          scenario, summarized, reviewer, review, cost_tracker, parsed,
          invocation, cli>>

(***************************************************************************)
(* Bounds                                                                  *)
(***************************************************************************)
\* longest caller-supplied path, in segments
MaxSegs == 2
\* number of repositories one KitServerLogic opens
MaxRepos == 2
\* number of distinct commits a client names as ref
MaxRefs == 2
\* number of pieces a PR input is written with
MaxUrlLen == 7
\* number of usage records one reviewer's cost tracker takes
MaxTracked == 2

(***************************************************************************)
(* The file system the repositories live in                                *)
(*   /r        the repository root (Repository.repo_path, already resolved)*)
(*   /r/f      a file of the repository                                    *)
(*   /r/l      a symbolic link of the repository, pointing at /rb          *)
(*   /rb       a sibling directory whose name has the root's name as a     *)
(*             string prefix                                               *)
(***************************************************************************)
RepoRoot == <<"r">>

Symlinks == [p \in {<<"r", "l">>} |-> <<"rb">>]

\* the segments a caller's path is made of
Segments == {"..", "r", "rb", "f", "l"}

\* the characters of a path component
Chars(name) ==
  CASE name = "r" -> <<"r">>
    [] name = "rb" -> <<"r", "b">>
    [] name = "f" -> <<"f">>
    [] name = "l" -> <<"l">>
    [] name = ".." -> <<".", ".">>

\* all sequences over S of length at most n
RECURSIVE SeqsUpTo(_, _)
SeqsUpTo(S, n) ==
  IF n = 0 THEN {<<>>}
  ELSE LET shorter == SeqsUpTo(S, n - 1)
       IN shorter \cup {Append(s, x) : s \in {t \in shorter : Len(t) = n - 1}, x \in S}

\* a caller-supplied path: None, or a relative or absolute sequence of segments
None == [none |-> TRUE, abs |-> FALSE, segs |-> <<>>]
MkPath(abs, segs) == [none |-> FALSE, abs |-> abs, segs |-> segs]
StrPaths == {MkPath(a, s) : a \in BOOLEAN, s \in SeqsUpTo(Segments, MaxSegs)}

\* Python truthiness of an Optional[str] path: None and "" are falsy
Truthy(path) == ~path.none /\ (path.abs \/ Len(path.segs) > 0)

\* str(Path): "/" for the file-system root, else "/c1/c2..."
RECURSIVE PathStr(_)
PathStr(comps) ==
  IF Len(comps) = 0 THEN <<"/">>
  ELSE LET front == SubSeq(comps, 1, Len(comps) - 1)
       IN (IF Len(front) = 0 THEN <<>> ELSE PathStr(front))
          \o <<"/">> \o Chars(comps[Len(comps)])

\* str.startswith
startswith(s, prefix) ==
  Len(prefix) <= Len(s) /\ SubSeq(s, 1, Len(prefix)) = prefix

\* (Path(base) / path).resolve(): an absolute path replaces the base, ".."
\* drops the last resolved component, a symbolic link is replaced by its target
RECURSIVE ResolveFrom(_, _)
ResolveFrom(cur, segs) ==
  IF Len(segs) = 0 THEN cur
  ELSE LET seg == Head(segs)
           nxt == IF seg = ".."
                  THEN (IF Len(cur) = 0 THEN cur ELSE SubSeq(cur, 1, Len(cur) - 1))
                  ELSE LET joined == Append(cur, seg)
                       IN IF joined \in DOMAIN Symlinks THEN Symlinks[joined] ELSE joined
       IN ResolveFrom(nxt, Tail(segs))

resolve(base, path) == ResolveFrom(IF path.abs THEN <<>> ELSE base, path.segs)

\* containment by path components: p is base or a descendant of base
IsWithin(p, base) ==
  Len(base) <= Len(p) /\ SubSeq(p, 1, Len(base)) = base

\* PurePath.relative_to: the components below base, ValueError when p is not
\* base or a descendant of it
relative_to_lexical(p, base) ==
  IF startswith(PathStr(p), PathStr(base))
  THEN [ok |-> TRUE, rel |-> SubSeq(p, Len(base) + 1, Len(p))]
  ELSE [ok |-> FALSE, rel |-> <<>>]

relative_to(p, base) ==
  IF IsWithin(p, base)
  THEN [ok |-> TRUE, rel |-> SubSeq(p, Len(base) + 1, Len(p))]
  ELSE [ok |-> FALSE, rel |-> <<>>]

(***************************************************************************)
(* Outcomes of a KitServerLogic call                                       *)
(***************************************************************************)
INVALID_PARAMS == "INVALID_PARAMS"
INTERNAL_ERROR == "INTERNAL_ERROR"

NoValue == [k \in {} |-> "None"]

Ret(value, ops) ==
  [kind |-> "return", code |-> "-", exc |-> "-", message |-> <<>>,
   value |-> value, ops |-> ops]

MCPError(code, message, ops) ==
  [kind |-> "raise", code |-> code, exc |-> "MCPError", message |-> message,
   value |-> NoValue, ops |-> ops]

Raise(exc, message, ops) ==
  [kind |-> "raise", code |-> "-", exc |-> exc, message |-> message,
   value |-> NoValue, ops |-> ops]

\* str(e) of an exception raised by a collaborator
StrOf(exc) == <<"<" \o exc \o ">">>

\* a repository operation performed on a target (absolute components)
Op(name, target) == [name |-> name, target |-> target]

TraversalMsg == <<"Path traversal outside repository root">>

\* KitServerLogic._check_within_repo
_check_within_repo(repo_path, path) ==
  LET requested == resolve(repo_path, path)
  IN [ok |-> startswith(PathStr(requested), PathStr(repo_path)),
      requested |-> requested]


(***************************************************************************)
(* KitServerLogic                                                          *)
(*   repos      _repos:     repo id -> Repository (its source and root)    *)
(*   analyzers  _analyzers: repo id -> the analyzers built so far          *)
(* Every operation is an operator from the state and the arguments to      *)
(* [out, repos, analyzers]: the outcome and the state the call leaves.     *)
(***************************************************************************)
\* the ids uuid4 draws from; 0 is an id that is never drawn
UUIDs == 1..MaxRepos
RepoIds == 0..MaxRepos

Sources == {"local", "url"}

AnalyzerNames == {"vector_searcher", "docstring_indexer", "code_summarizer"}

\* the message without the id
NotFoundMsg_no_id(repo_id) == <<"Repository not found">>

\* f"Repository {repo_id} not found"
NotFoundMsg(repo_id) == <<"Repository ", ToString(repo_id), " not found">>

Result(out, R, A) == [out |-> out, repos |-> R, analyzers |-> A]

\* KitServerLogic.get_repo: the error it raises, if any
get_repo_fails(R, repo_id) == repo_id \notin DOMAIN R

\* an open_repository that hands out the handle a source already has
\* open_repository that registers the repository and no analyzer map for it
open_repository_without_analyzers(R, A, path_or_url, repo_id, env) ==
  IF env = "ok"
  THEN Result(Ret([id |-> ToString(repo_id)], {}),
              [i \in DOMAIN R \cup {repo_id} |->
                 IF i = repo_id
                 THEN [source |-> path_or_url, repo_path |-> RepoRoot]
                 ELSE R[i]],
              A)
  ELSE Result(MCPError(INVALID_PARAMS, StrOf(env), {}), R, A)

open_repository_reuse(R, A, path_or_url, repo_id, env) ==
  IF env = "ok"
  THEN IF \E i \in DOMAIN R : R[i].source = path_or_url
       THEN Result(Ret([id |-> ToString(CHOOSE i \in DOMAIN R : R[i].source = path_or_url)],
                       {}), R, A)
       ELSE Result(Ret([id |-> ToString(repo_id)], {}),
                   [i \in DOMAIN R \cup {repo_id} |->
                      IF i = repo_id
                      THEN [source |-> path_or_url, repo_path |-> RepoRoot]
                      ELSE R[i]],
                   [i \in DOMAIN A \cup {repo_id} |-> IF i = repo_id THEN {} ELSE A[i]])
  ELSE Result(MCPError(INVALID_PARAMS, StrOf(env), {}), R, A)

\* KitServerLogic.open_repository; env is what Repository(path_or_url) does,
\* repo_id the value uuid.uuid4() returns
open_repository(R, A, path_or_url, repo_id, env) ==
  CASE env = "ok" ->
         Result(Ret([id |-> ToString(repo_id)], {}),
                [i \in DOMAIN R \cup {repo_id} |->
                   IF i = repo_id
                   THEN [source |-> path_or_url, repo_path |-> RepoRoot]
                   ELSE R[i]],
                [i \in DOMAIN A \cup {repo_id} |-> IF i = repo_id THEN {} ELSE A[i]])
    [] env = "FileNotFoundError" ->
         Result(MCPError(INVALID_PARAMS,
                         <<"Repository path not found: ">> \o StrOf(env), {}), R, A)
    [] OTHER ->
         Result(MCPError(INVALID_PARAMS, StrOf(env), {}), R, A)

\* KitServerLogic.search_code; env is what repo.search_text does
search_code(R, A, repo_id, env) ==
  IF get_repo_fails(R, repo_id)
  THEN Result(MCPError(INVALID_PARAMS, NotFoundMsg(repo_id), {}), R, A)
  ELSE LET ops == {Op("search_text", R[repo_id].repo_path)}
       IN IF env = "ok"
          THEN Result(Ret([result |-> "hits"], ops), R, A)
          ELSE Result(MCPError(INVALID_PARAMS,
                               <<"Invalid search pattern: ">> \o StrOf(env), ops), R, A)

\* KitServerLogic.get_file_content; env is what repo.get_file_content does
get_file_content(R, A, repo_id, path, env) ==
  IF get_repo_fails(R, repo_id)
  THEN Result(MCPError(INVALID_PARAMS, NotFoundMsg(repo_id), {}), R, A)
  ELSE LET root == R[repo_id].repo_path
           chk == _check_within_repo(root, path)
           rel == relative_to(chk.requested, root)
           ops == {Op("get_file_content", root \o rel.rel)}
       IN CASE ~chk.ok -> Result(MCPError(INVALID_PARAMS, TraversalMsg, {}), R, A)
            [] chk.ok /\ ~rel.ok ->
                 Result(Raise("ValueError", <<"not in the subpath">>, {}), R, A)
            [] chk.ok /\ rel.ok /\ env = "ok" ->
                 Result(Ret([result |-> "content"], ops), R, A)
            [] chk.ok /\ rel.ok /\ env = "FileNotFoundError" ->
                 Result(MCPError(INVALID_PARAMS, StrOf(env), ops), R, A)
            [] OTHER ->
                 Result(MCPError(INVALID_PARAMS,
                                 <<"Error reading file: ">> \o StrOf(env), ops), R, A)

\* KitServerLogic.extract_symbols; env is what repo.extract_symbols does. The
\* path check and relative_to are inside the try, whose handlers re-raise
\* FileNotFoundError as is and every other Exception with a prefix.
extract_symbols(R, A, repo_id, path, env) ==
  IF get_repo_fails(R, repo_id)
  THEN Result(MCPError(INVALID_PARAMS, NotFoundMsg(repo_id), {}), R, A)
  ELSE LET root == R[repo_id].repo_path
           chk == _check_within_repo(root, path)
           rel == relative_to(chk.requested, root)
           ops == {Op("extract_symbols", root \o rel.rel)}
           wrap(msg, o) ==
             MCPError(INVALID_PARAMS, <<"Error extracting symbols: ">> \o msg, o)
       IN CASE ~chk.ok -> Result(wrap(TraversalMsg, {}), R, A)
            [] chk.ok /\ ~rel.ok -> Result(wrap(<<"not in the subpath">>, {}), R, A)
            [] chk.ok /\ rel.ok /\ env = "ok" ->
                 Result(Ret([result |-> "symbols"], ops), R, A)
            [] chk.ok /\ rel.ok /\ env = "FileNotFoundError" ->
                 Result(MCPError(INVALID_PARAMS, StrOf(env), ops), R, A)
            [] OTHER -> Result(wrap(StrOf(env), ops), R, A)

\* KitServerLogic.find_symbol_usages; env is what repo.find_symbol_usages does
find_symbol_usages(R, A, repo_id, path, env) ==
  IF get_repo_fails(R, repo_id)
  THEN Result(MCPError(INVALID_PARAMS, NotFoundMsg(repo_id), {}), R, A)
  ELSE LET root == R[repo_id].repo_path
           chk == _check_within_repo(root, path)
           rel == relative_to(chk.requested, root)
           ops == {Op("find_symbol_usages", root)}
       IN CASE Truthy(path) /\ ~chk.ok ->
                 Result(MCPError(INVALID_PARAMS, TraversalMsg, {}), R, A)
            [] Truthy(path) /\ chk.ok /\ ~rel.ok ->
                 Result(Raise("ValueError", <<"not in the subpath">>, {}), R, A)
            [] OTHER ->
                 IF env = "ok"
                 THEN Result(Ret([result |-> "usages"], ops), R, A)
                 ELSE Result(Raise(env, StrOf(env), ops), R, A)

\* KitServerLogic.get_file_tree; env is what repo.get_file_tree does
get_file_tree(R, A, repo_id, env) ==
  IF get_repo_fails(R, repo_id)
  THEN Result(MCPError(INVALID_PARAMS, NotFoundMsg(repo_id), {}), R, A)
  ELSE LET ops == {Op("get_file_tree", R[repo_id].repo_path)}
       IN IF env = "ok"
          THEN Result(Ret([result |-> "tree"], ops), R, A)
          ELSE Result(Raise(env, StrOf(env), ops), R, A)

\* KitServerLogic.get_analyzer for the analyzers the logic asks for; ctor is
\* what the analyzer's constructor does when it has to be built.
\* [out |-> the error raised or Ret, analyzers |-> _analyzers afterwards]
get_analyzer(R, A, repo_id, analyzer_name, ctor) ==
  CASE repo_id \notin DOMAIN A ->
         Result(MCPError(INVALID_PARAMS, NotFoundMsg(repo_id), {}), R, A)
    [] repo_id \in DOMAIN A /\ analyzer_name \in A[repo_id] ->
         Result(Ret(NoValue, {}), R, A)
    [] repo_id \in DOMAIN A /\ analyzer_name \notin A[repo_id]
         /\ analyzer_name \notin AnalyzerNames \cup {"symbol_extractor"} ->
         Result(MCPError(INVALID_PARAMS, <<"Unknown analyzer: ", analyzer_name>>, {}),
                R, A)
    [] repo_id \in DOMAIN A /\ analyzer_name \notin A[repo_id]
         /\ analyzer_name \in AnalyzerNames \cup {"symbol_extractor"} /\ ctor = "ok" ->
         Result(Ret(NoValue, {}), R,
                [A EXCEPT ![repo_id] = A[repo_id] \cup {analyzer_name}])
    [] OTHER -> Result(Raise(ctor, StrOf(ctor), {}), R, A)

\* KitServerLogic.semantic_search; env is what analyzer.search does
semantic_search(R, A, repo_id, ctor, env) ==
  LET ga == get_analyzer(R, A, repo_id, "vector_searcher", ctor)
      ops == {Op("semantic_search", R[repo_id].repo_path)}
  IN IF ga.out.kind = "raise" THEN ga
     ELSE IF env = "ok"
          THEN Result(Ret([result |-> "matches"], ops), R, ga.analyzers)
          ELSE Result(Raise(env, StrOf(env), ops), R, ga.analyzers)

\* KitServerLogic.get_documentation; env is what analyzer.get_documentation does
get_documentation(R, A, repo_id, path, ctor, env) ==
  LET ga == get_analyzer(R, A, repo_id, "docstring_indexer", ctor)
  IN IF ga.out.kind = "raise" THEN ga
     ELSE LET root == R[repo_id].repo_path
              chk == _check_within_repo(root, path)
              rel == relative_to(chk.requested, root)
              ops == {Op("get_documentation",
                         IF Truthy(path) THEN root \o rel.rel ELSE root)}
          IN CASE Truthy(path) /\ ~chk.ok ->
                    Result(MCPError(INVALID_PARAMS, TraversalMsg, {}), R, ga.analyzers)
               [] Truthy(path) /\ chk.ok /\ ~rel.ok ->
                    Result(Raise("ValueError", <<"not in the subpath">>, {}),
                           R, ga.analyzers)
               [] OTHER ->
                    IF env = "ok"
                    THEN Result(Ret([result |-> "docs"], ops), R, ga.analyzers)
                    ELSE Result(Raise(env, StrOf(env), ops), R, ga.analyzers)

\* symbol_name arguments: None, the empty string, a name
NoSymbol == "<None>"
SymbolNames == {NoSymbol, "", "sym"}
SymbolGiven(symbol_name) == symbol_name \notin {NoSymbol, ""}

\* what the Summarizer's three operations and its constructor do in one call
SummaryEnvs ==
  [repo : {"ok"},
   ctor : {"ok", "ValueError"},
   file : {"ok", "FileNotFoundError", "LLMError"},
   fn : {"ok", "ValueError", "LLMError"},
   cls : {"ok", "ValueError", "LLMError"}]

\* a ValueError of summarize_function also drops the class summary
Summaries_shared_handler(symbol_name, env) ==
  IF SymbolGiven(symbol_name)
  THEN [k \in {"file", "function", "class"} |->
          CASE k = "file" -> "file summary"
            [] k = "function" -> IF env.fn = "ok" THEN "function summary" ELSE "None"
            [] k = "class" ->
                 IF env.fn = "ok" /\ env.cls = "ok" THEN "class summary" ELSE "None"]
  ELSE [k \in {"file"} |-> "file summary"]

\* the summaries dict get_code_summary builds once summarize_file has returned
Summaries(symbol_name, env) ==
  IF SymbolGiven(symbol_name)
  THEN [k \in {"file", "function", "class"} |->
          CASE k = "file" -> "file summary"
            [] k = "function" -> IF env.fn = "ok" THEN "function summary" ELSE "None"
            [] k = "class" -> IF env.cls = "ok" THEN "class summary" ELSE "None"]
  ELSE [k \in {"file"} |-> "file summary"]

\* the Summarizer calls get_code_summary makes, in order, until one raises
\* something the inner handlers do not catch
SummaryOps(target, symbol_name, env) ==
  {Op("summarize_file", target)}
  \cup (IF env.file = "ok" /\ SymbolGiven(symbol_name)
        THEN {Op("summarize_function", target)} ELSE {})
  \cup (IF env.file = "ok" /\ SymbolGiven(symbol_name) /\ env.fn \in {"ok", "ValueError"}
        THEN {Op("summarize_class", target)} ELSE {})

\* a get_code_summary whose inner handlers catch every exception of the
\* symbol summaries, not only ValueError
get_code_summary_partial(R, A, repo_id, path, symbol_name, env) ==
  IF get_repo_fails(R, repo_id)
  THEN Result(MCPError(INVALID_PARAMS, NotFoundMsg(repo_id), {}), R, A)
  ELSE LET root == R[repo_id].repo_path
           chk == _check_within_repo(root, path)
           rel == relative_to(chk.requested, root)
           ga == get_analyzer(R, A, repo_id, "code_summarizer", env.ctor)
           ops == SummaryOps(root \o rel.rel, symbol_name, env)
           wrap(exc) == Result(MCPError(INVALID_PARAMS, StrOf(exc), ops), R, ga.analyzers)
       IN CASE ~chk.ok -> Result(MCPError(INVALID_PARAMS, TraversalMsg, {}), R, A)
            [] chk.ok /\ ~rel.ok ->
                 Result(Raise("ValueError", <<"not in the subpath">>, {}), R, A)
            [] chk.ok /\ rel.ok /\ ga.out.kind = "raise" ->
                 Result(MCPError(INVALID_PARAMS, ga.out.message, {}), R, ga.analyzers)
            [] chk.ok /\ rel.ok /\ ga.out.kind # "raise" /\ env.file # "ok" ->
                 wrap(env.file)
            [] OTHER ->
                 Result(Ret(Summaries(symbol_name, env), ops), R, ga.analyzers)

\* KitServerLogic.get_code_summary
get_code_summary(R, A, repo_id, path, symbol_name, env) ==
  IF get_repo_fails(R, repo_id)
  THEN Result(MCPError(INVALID_PARAMS, NotFoundMsg(repo_id), {}), R, A)
  ELSE LET root == R[repo_id].repo_path
           chk == _check_within_repo(root, path)
           rel == relative_to(chk.requested, root)
           ga == get_analyzer(R, A, repo_id, "code_summarizer", env.ctor)
           ops == SummaryOps(root \o rel.rel, symbol_name, env)
           wrap(exc) == Result(MCPError(INVALID_PARAMS, StrOf(exc), ops), R, ga.analyzers)
       IN CASE ~chk.ok -> Result(MCPError(INVALID_PARAMS, TraversalMsg, {}), R, A)
            [] chk.ok /\ ~rel.ok ->
                 Result(Raise("ValueError", <<"not in the subpath">>, {}), R, A)
            [] chk.ok /\ rel.ok /\ ga.out.kind = "raise" ->
                 Result(MCPError(INVALID_PARAMS, ga.out.message, {}), R, ga.analyzers)
            [] chk.ok /\ rel.ok /\ ga.out.kind # "raise" /\ env.file # "ok" ->
                 wrap(env.file)
            [] chk.ok /\ rel.ok /\ ga.out.kind # "raise" /\ env.file = "ok"
                 /\ SymbolGiven(symbol_name) /\ env.fn \notin {"ok", "ValueError"} ->
                 wrap(env.fn)
            [] chk.ok /\ rel.ok /\ ga.out.kind # "raise" /\ env.file = "ok"
                 /\ SymbolGiven(symbol_name) /\ env.fn \in {"ok", "ValueError"}
                 /\ env.cls \notin {"ok", "ValueError"} ->
                 wrap(env.cls)
            [] OTHER ->
                 Result(Ret(Summaries(symbol_name, env), ops), R, ga.analyzers)

(***************************************************************************)
(* serve.call_tool                                                         *)
(***************************************************************************)
ToolNames ==
  {"open_repository", "search_code", "get_file_content", "extract_symbols",
   "find_symbol_usages", "get_file_tree", "semantic_search", "get_documentation",
   "get_code_summary"}

ArgKeys == {"path_or_url", "repo_id", "query", "file_path", "symbol_name"}

\* the fields the tool's parameter model declares without a default
Required(name) ==
  CASE name = "open_repository" -> {"path_or_url"}
    [] name = "search_code" -> {"repo_id", "query"}
    [] name = "get_file_content" -> {"repo_id", "file_path"}
    [] name = "extract_symbols" -> {"repo_id", "file_path"}
    [] name = "find_symbol_usages" -> {"repo_id", "symbol_name"}
    [] name = "get_file_tree" -> {"repo_id"}
    [] name = "semantic_search" -> {"repo_id", "query"}
    [] name = "get_documentation" -> {"repo_id"}
    [] name = "get_code_summary" -> {"repo_id", "file_path"}
    [] OTHER -> {}

\* XxxParams(**arguments): ValidationError when a required field is missing
Validates(name, arguments) == Required(name) \subseteq arguments.given

\* the value the parameter model gives an optional field
ArgPath(arguments) ==
  IF "file_path" \in arguments.given THEN arguments.file_path ELSE None
ArgSymbol(arguments) ==
  IF "symbol_name" \in arguments.given THEN arguments.symbol_name ELSE NoSymbol

TextContent(text) == [type |-> "text", code |-> "-", message |-> <<text>>]
ResourceContent(resource) == [type |-> "resource", code |-> "-", message |-> <<resource>>]
\* create_error_content
create_error_content(code, message) ==
  [type |-> "error", code |-> code, message |-> message]

\* the KitServerLogic call each branch of call_tool makes
Dispatch(R, A, name, arguments, uuid, env) ==
  CASE name = "open_repository" ->
         open_repository(R, A, arguments.path_or_url, uuid, env.repo)
    [] name = "search_code" -> search_code(R, A, arguments.repo_id, env.repo)
    [] name = "get_file_content" ->
         get_file_content(R, A, arguments.repo_id, arguments.file_path, env.repo)
    [] name = "extract_symbols" ->
         extract_symbols(R, A, arguments.repo_id, arguments.file_path, env.repo)
    [] name = "find_symbol_usages" ->
         find_symbol_usages(R, A, arguments.repo_id, ArgPath(arguments), env.repo)
    [] name = "get_file_tree" -> get_file_tree(R, A, arguments.repo_id, env.repo)
    [] name = "semantic_search" ->
         semantic_search(R, A, arguments.repo_id, env.ctor, env.repo)
    [] name = "get_documentation" ->
         get_documentation(R, A, arguments.repo_id, ArgPath(arguments), env.ctor, env.repo)
    [] name = "get_code_summary" ->
         get_code_summary(R, A, arguments.repo_id, arguments.file_path,
                          ArgSymbol(arguments), env)

\* what call_tool answers when the logic call returned
Answer(name) ==
  CASE name = "get_file_content" -> ResourceContent("file")
    [] name = "get_file_tree" -> ResourceContent("tree")
    [] OTHER -> TextContent(name)

\* the except clauses of call_tool, applied to what the logic call raised
Handlers_all_internal(out) ==
  create_error_content(INTERNAL_ERROR, out.message)

Handlers(out) ==
  IF out.exc = "MCPError"
  THEN create_error_content(out.code, out.message)
  ELSE create_error_content(INTERNAL_ERROR, out.message)

\* call_tool: [content, out, repos, analyzers]; out is the logic call's outcome
\* (NoCall when no logic call was made)
NoCall == Ret(NoValue, {})

call_tool(R, A, name, arguments, uuid, env) ==
  CASE name \notin ToolNames ->
         [content |-> create_error_content(INVALID_PARAMS, <<"Unknown tool: ", name>>),
          out |-> NoCall, repos |-> R, analyzers |-> A]
    [] name \in ToolNames /\ ~Validates(name, arguments) ->
         [content |-> create_error_content(INVALID_PARAMS, <<"<ValidationError>">>),
          out |-> NoCall, repos |-> R, analyzers |-> A]
    [] OTHER ->
         LET r == Dispatch(R, A, name, arguments, uuid, env)
         IN [content |-> IF r.out.kind = "return" THEN Answer(name) ELSE Handlers(r.out),
             out |-> r.out, repos |-> r.repos, analyzers |-> r.analyzers]

(***************************************************************************)
(* KitServerLogic.get_prompt                                               *)
(***************************************************************************)
PromptNames ==
  {"open_repo", "search_repo", "get_file_content", "extract_symbols",
   "find_symbol_usages", "get_file_tree", "semantic_search", "get_documentation",
   "get_code_summary"}

\* list_prompts: the arguments declared required=True
PromptRequired(name) ==
  CASE name = "open_repo" -> {"path_or_url"}
    [] name = "search_repo" -> {"repo_id", "query"}
    [] name = "get_file_content" -> {"repo_id", "file_path"}
    [] name = "extract_symbols" -> {"repo_id", "file_path"}
    [] name = "find_symbol_usages" -> {"repo_id", "symbol_name"}
    [] name = "get_file_tree" -> {"repo_id"}
    [] name = "semantic_search" -> {"repo_id", "query"}
    [] name = "get_documentation" -> {"repo_id"}
    [] name = "get_code_summary" -> {"repo_id", "file_path"}
    [] OTHER -> {}

\* the keys each branch of get_prompt reads with arguments[...], in the order
\* Python evaluates them
Subscripted(name) ==
  CASE name = "open_repo" -> <<"path_or_url">>
    [] name = "search_repo" -> <<"repo_id", "query">>
    [] name = "get_file_content" -> <<"repo_id", "file_path">>
    [] name = "extract_symbols" -> <<"repo_id", "file_path">>
    [] name = "find_symbol_usages" -> <<"repo_id", "symbol_name">>
    [] name = "get_file_tree" -> <<"repo_id">>
    [] name = "semantic_search" -> <<"repo_id", "query">>
    [] name = "get_documentation" -> <<"repo_id">>
    [] name = "get_code_summary" -> <<"repo_id", "file_path">>

\* the positions of the subscripted keys the arguments do not have
MissingAt(name, arguments) ==
  {i \in 1..Len(Subscripted(name)) : Subscripted(name)[i] \notin arguments.given}

\* arguments is None
NoArguments ==
  [none |-> TRUE, given |-> {}, path_or_url |-> "local", repo_id |-> 0,
   file_path |-> None, symbol_name |-> "sym"]

\* not arguments: None or {}
Falsy(arguments) == arguments.none \/ arguments.given = {}

\* the open_repo branch: open_repository, then repo.get_file_tree() for the
\* message (tree is what that call does)
PromptOpenRepo(R, A, arguments, uuid, env) ==
  LET o == open_repository(R, A, arguments.path_or_url, uuid, env.repo)
      ops == {Op("get_file_tree", RepoRoot)}
  IN CASE o.out.kind = "raise" -> o
       [] o.out.kind = "return" /\ env.file = "ok" ->
            Result(Ret([result |-> "Repository opened"], ops), o.repos, o.analyzers)
       [] OTHER -> Result(Raise(env.file, StrOf(env.file), ops), o.repos, o.analyzers)

\* the KitServerLogic call each branch of get_prompt makes
PromptDispatch(R, A, name, arguments, uuid, env) ==
  CASE name = "open_repo" -> PromptOpenRepo(R, A, arguments, uuid, env)
    [] name = "search_repo" -> search_code(R, A, arguments.repo_id, env.repo)
    [] name = "get_file_content" ->
         get_file_content(R, A, arguments.repo_id, arguments.file_path, env.repo)
    [] name = "extract_symbols" ->
         extract_symbols(R, A, arguments.repo_id, arguments.file_path, env.repo)
    [] name = "find_symbol_usages" ->
         find_symbol_usages(R, A, arguments.repo_id, ArgPath(arguments), env.repo)
    [] name = "get_file_tree" -> get_file_tree(R, A, arguments.repo_id, env.repo)
    [] name = "semantic_search" ->
         semantic_search(R, A, arguments.repo_id, env.ctor, env.repo)
    [] name = "get_documentation" ->
         get_documentation(R, A, arguments.repo_id, ArgPath(arguments), env.ctor, env.repo)
    [] name = "get_code_summary" ->
         get_code_summary(R, A, arguments.repo_id, arguments.file_path,
                          ArgSymbol(arguments), env)

\* except KeyError as e, without the key in the message
MissingArgument_no_name(key) == <<"Missing required argument">>

\* except KeyError as e: f"Missing required argument: {e.args[0]}"
MissingArgument(key) == <<"Missing required argument: ", key>>

\* KitServerLogic.get_prompt
get_prompt(R, A, name, arguments, uuid, env) ==
  CASE Falsy(arguments) ->
         Result(MCPError(INVALID_PARAMS, <<"Arguments are required">>, {}), R, A)
    [] ~Falsy(arguments) /\ name \notin PromptNames ->
         Result(MCPError(INVALID_PARAMS, <<"Unknown prompt: ", name>>, {}), R, A)
    [] ~Falsy(arguments) /\ name \in PromptNames /\ MissingAt(name, arguments) # {} ->
         LET first == CHOOSE i \in MissingAt(name, arguments) :
                        \A j \in MissingAt(name, arguments) : i <= j
         IN Result(MCPError(INVALID_PARAMS, MissingArgument(Subscripted(name)[first]), {}),
                   R, A)
    [] OTHER ->
         LET r == PromptDispatch(R, A, name, arguments, uuid, env)
         IN IF r.out.kind = "raise" /\ r.out.exc = "KeyError"
            THEN Result(MCPError(INVALID_PARAMS, MissingArgument(r.out.message[1]),
                                 r.out.ops), r.repos, r.analyzers)
            ELSE r

(***************************************************************************)
(* The environment of one call: what each collaborator does when called    *)
(*   repo  the Repository method (or the Repository constructor)           *)
(*   ctor  the analyzer's constructor                                      *)
(*   file, fn, cls  Summarizer.summarize_file / _function / _class         *)
(***************************************************************************)
AllOk == [repo |-> "ok", ctor |-> "ok", file |-> "ok", fn |-> "ok", cls |-> "ok"]

RepoEnvs == {[AllOk EXCEPT !.repo = x] : x \in {"ok", "FileNotFoundError", "OSError"}}

AnalyzerEnvs ==
  {AllOk, [AllOk EXCEPT !.repo = "RuntimeError"], [AllOk EXCEPT !.ctor = "ImportError"]}

\* a Summarizer whose symbol summaries succeed
FileSummaryEnvs == {e \in SummaryEnvs : e.fn = "ok" /\ e.cls = "ok"}

(***************************************************************************)
(* Actions of the tool-call gateway                                        *)
(*   last  the latest call: how it was made, its arguments, what the       *)
(*         collaborators did, its outcome, and the state it started from   *)
(***************************************************************************)
NoContent == [type |-> "none", code |-> "-", message |-> <<>>]

InitLast ==
  [via |-> "init", op |-> "-", valid |-> TRUE, repo_id |-> 0, source |-> "-",
   path |-> None, symbol |-> NoSymbol, env |-> AllOk, out |-> NoCall,
   content |-> NoContent, before |-> [repos |-> <<>>, analyzers |-> <<>>]]

\* a direct call of a KitServerLogic method with result r
Called(op, repo_id, source, path, symbol, env, r) ==
  /\ repos' = r.repos
  /\ analyzers' = r.analyzers
  /\ last' = [via |-> "logic", op |-> op, valid |-> TRUE, repo_id |-> repo_id,
              source |-> source, path |-> path, symbol |-> symbol, env |-> env,
              out |-> r.out, content |-> NoContent,
              before |-> [repos |-> repos, analyzers |-> analyzers]]
  /\ UNCHANGED <<file_path, httpVars, libVars, prVars>>

\* uuid.uuid4() returns an id no earlier call returned
OpenRepository(pool, sources) ==
  \E src \in sources, uuid \in pool \ DOMAIN repos, env \in RepoEnvs :
    Called("open_repository", uuid, src, None, NoSymbol, env,
           open_repository(repos, analyzers, src, uuid, env.repo))

SearchCode(ids) ==
  \E repo_id \in ids, env \in RepoEnvs :
    Called("search_code", repo_id, "-", None, NoSymbol, env,
           search_code(repos, analyzers, repo_id, env.repo))

GetFileContent(ids, paths) ==
  \E repo_id \in ids, path \in paths \ {None}, env \in RepoEnvs :
    Called("get_file_content", repo_id, "-", path, NoSymbol, env,
           get_file_content(repos, analyzers, repo_id, path, env.repo))

ExtractSymbols(ids, paths) ==
  \E repo_id \in ids, path \in paths \ {None}, env \in RepoEnvs :
    Called("extract_symbols", repo_id, "-", path, NoSymbol, env,
           extract_symbols(repos, analyzers, repo_id, path, env.repo))

FindSymbolUsages(ids, paths) ==
  \E repo_id \in ids, path \in paths, env \in RepoEnvs :
    Called("find_symbol_usages", repo_id, "-", path, "sym", env,
           find_symbol_usages(repos, analyzers, repo_id, path, env.repo))

GetFileTree(ids) ==
  \E repo_id \in ids, env \in RepoEnvs :
    Called("get_file_tree", repo_id, "-", None, NoSymbol, env,
           get_file_tree(repos, analyzers, repo_id, env.repo))

SemanticSearch(ids) ==
  \E repo_id \in ids, env \in AnalyzerEnvs :
    Called("semantic_search", repo_id, "-", None, NoSymbol, env,
           semantic_search(repos, analyzers, repo_id, env.ctor, env.repo))

GetDocumentation(ids, paths) ==
  \E repo_id \in ids, path \in paths, env \in AnalyzerEnvs :
    Called("get_documentation", repo_id, "-", path, NoSymbol, env,
           get_documentation(repos, analyzers, repo_id, path, env.ctor, env.repo))

GetCodeSummary(ids, paths, symbols, envs) ==
  \E repo_id \in ids, path \in paths \ {None}, symbol_name \in symbols, env \in envs :
    Called("get_code_summary", repo_id, "-", path, symbol_name, env,
           get_code_summary(repos, analyzers, repo_id, path, symbol_name, env))

\* the arguments dict of a tool call: the keys given and their values
Arguments(givens, ids, paths) ==
  [given : givens, path_or_url : {"local"}, repo_id : ids, file_path : paths,
   symbol_name : {"sym"}]

\* one request handled by serve.call_tool
CallTool(names, pool, args, envs) ==
  \E name \in names, arguments \in args, uuid \in pool, env \in envs :
    /\ name = "open_repository" => uuid \notin DOMAIN repos
    /\ LET r == call_tool(repos, analyzers, name, arguments, uuid, env)
       IN /\ repos' = r.repos
          /\ analyzers' = r.analyzers
          /\ last' = [via |-> "call_tool", op |-> name,
                      valid |-> Validates(name, arguments), repo_id |-> 0,
                      source |-> "-", path |-> None, symbol |-> NoSymbol, env |-> env,
                      out |-> r.out, content |-> r.content,
                      before |-> [repos |-> repos, analyzers |-> analyzers]]
    /\ UNCHANGED <<file_path, httpVars, libVars, prVars>>

\* the arguments of a get_prompt request: None, or a dict with the keys of given
PromptArguments(givens, ids, paths) ==
  {NoArguments}
  \cup [none : {FALSE}, given : givens, path_or_url : {"local"}, repo_id : ids,
        file_path : paths, symbol_name : {"sym"}]

\* one get_prompt request
GetPrompt(names, pool, args, envs) ==
  \E name \in names, arguments \in args, uuid \in pool, env \in envs :
    /\ name = "open_repo" => uuid \notin DOMAIN repos
    /\ LET r == get_prompt(repos, analyzers, name, arguments, uuid, env)
       IN /\ repos' = r.repos
          /\ analyzers' = r.analyzers
          /\ last' = [via |-> "get_prompt", op |-> name,
                      valid |-> PromptRequired(name) \subseteq arguments.given,
                      repo_id |-> arguments.repo_id, source |-> "-",
                      path |-> ArgPath(arguments), symbol |-> NoSymbol, env |-> env,
                      out |-> r.out, content |-> NoContent, args |-> arguments,
                      before |-> [repos |-> repos, analyzers |-> analyzers]]
    /\ UNCHANGED <<file_path, httpVars, libVars, prVars>>

(***************************************************************************)
(* HandleRegistry (kit/api/registry.py), as section 4.6 of the              *)
(* specification describes it: store maps a handle id to its (source, ref), *)
(* cache holds the ids whose Repository has been constructed                *)
(***************************************************************************)
\* ref of a request body: absent (null), the empty string, or a commit
NoRef == "<null>"
Refs == {NoRef, ""} \cup {"sha" \o ToString(i) : i \in 1..MaxRefs}

\* two spellings of the directory /r
HttpSources == {"/r", "/r/"}

normalized_source(source) == IF source = "/r/" THEN "/r" ELSE source

ref_or_empty(ref) == IF ref = NoRef THEN "" ELSE ref

\* the key that is hashed; the hash itself is taken to be collision-free
handle_id(source, ref) == <<normalized_source(source), "@", ref_or_empty(ref)>>

NoId == <<>>
UnknownId == <<"0000">>

registry_add(S, source, ref) ==
  LET id == handle_id(source, ref)
  IN [id |-> id,
      store |-> [i \in DOMAIN S \cup {id} |->
                   IF i = id THEN [source |-> normalized_source(source),
                                   ref |-> ref_or_empty(ref)]
                   ELSE S[i]]]

\* env is what constructing the Repository does when it is not cached yet
registry_get_repo(S, C, repo_id, env) ==
  CASE repo_id \notin DOMAIN S -> [exc |-> "KeyError", cache |-> C]
    [] repo_id \in DOMAIN S /\ repo_id \in C -> [exc |-> "-", cache |-> C]
    [] repo_id \in DOMAIN S /\ repo_id \notin C /\ env = "ok" ->
         [exc |-> "-", cache |-> C \cup {repo_id}]
    [] OTHER -> [exc |-> env, cache |-> C]

registry_delete(S, C, repo_id) ==
  IF repo_id \notin DOMAIN S
  THEN [exc |-> "KeyError", store |-> S, cache |-> C]
  ELSE [exc |-> "-", store |-> [i \in DOMAIN S \ {repo_id} |-> S[i]],
        cache |-> C \ {repo_id}]

(***************************************************************************)
(* The FastAPI application (kit/api/app.py)                                *)
(***************************************************************************)
\* the text of a path parameter
RECURSIVE JoinSegs(_)
JoinSegs(segs) ==
  IF Len(segs) = 0 THEN ""
  ELSE IF Len(segs) = 1 THEN segs[1]
  ELSE segs[1] \o "/" \o JoinSegs(Tail(segs))

PathText(path) ==
  IF path.none THEN "None"
  ELSE (IF path.abs THEN "/" ELSE "") \o JoinSegs(path.segs)

\* what a Repository of the directory /r touches for a path parameter
HttpTarget(path) == IF path.none THEN RepoRoot ELSE resolve(RepoRoot, path)

Response(status, detail, body, id, ops, S, C) ==
  [status |-> status, detail |-> detail, body |-> body, id |-> id, ops |-> ops,
   store |-> S, cache |-> C]

HTTPException(status_code, detail, ops, S, C) ==
  Response(status_code, detail, "-", NoId, ops, S, C)

\* an exception no handler catches: FastAPI answers 500
Unhandled(ops, S, C) ==
  HTTPException(500, <<"Internal Server Error">>, ops, S, C)

Ok(body, ops, S, C) == Response(200, <<>>, body, NoId, ops, S, C)

\* KeyError left uncaught
RepoNotFound_unhandled(S, C) == Unhandled({}, S, C)

\* except KeyError: raise HTTPException(status_code=404, detail="Repo not found")
RepoNotFound(S, C) == HTTPException(404, <<"Repo not found">>, {}, S, C)

\* the behaviour of the collaborators during one request:
\*   repo  constructing the Repository     call  the Repository method
\*   fn    summarize_function              cls   summarize_class
\*   file  summarize_file / analyzer.analyze
HttpOk == [repo |-> "ok", call |-> "ok", fn |-> "ok", cls |-> "ok", file |-> "ok"]

\* registers the source without its ref
open_repo_drops_ref(S, C, path_or_url, ref, env) ==
  LET a == registry_add(S, path_or_url, NoRef)
      g == registry_get_repo(a.store, C, a.id, env.repo)
  IN IF g.exc # "-" THEN Unhandled({}, a.store, g.cache)
     ELSE Response(201, <<>>, "id", a.id, {}, a.store, g.cache)

\* POST /repository
open_repo(S, C, path_or_url, ref, env) ==
  LET a == registry_add(S, path_or_url, ref)
      g == registry_get_repo(a.store, C, a.id, env.repo)
  IN IF g.exc # "-" THEN Unhandled({}, a.store, g.cache)
     ELSE Response(201, <<>>, "id", a.id, {}, a.store, g.cache)

\* a Repository method whose exceptions the handler does not catch
Plain(S, C, repo_id, env, name, target, body) ==
  LET g == registry_get_repo(S, C, repo_id, env.repo)
      ops == {Op(name, target)}
  IN CASE g.exc = "KeyError" -> RepoNotFound(S, C)
       [] g.exc \notin {"KeyError", "-"} -> Unhandled({}, S, g.cache)
       [] g.exc = "-" /\ env.call = "ok" -> Ok(body, ops, S, g.cache)
       [] OTHER -> Unhandled(ops, S, g.cache)

\* GET /repository/{repo_id}/file-tree
api_get_file_tree(S, C, repo_id, env) ==
  Plain(S, C, repo_id, env, "get_file_tree", RepoRoot, "tree")

\* GET /repository/{repo_id}/files/{file_path:path}
api_get_file_content(S, C, repo_id, path, env) ==
  LET g == registry_get_repo(S, C, repo_id, env.repo)
      ops == {Op("get_file_content", HttpTarget(path))}
  IN CASE g.exc = "KeyError" -> RepoNotFound(S, C)
       [] g.exc \notin {"KeyError", "-"} -> Unhandled({}, S, g.cache)
       [] g.exc = "-" /\ env.call = "ok" -> Ok("content", ops, S, g.cache)
       [] g.exc = "-" /\ env.call = "FileNotFoundError" ->
            HTTPException(404, <<"File not found: ", PathText(path)>>, ops, S, g.cache)
       [] g.exc = "-" /\ env.call = "OSError" ->
            HTTPException(500, <<"Error reading file: ">> \o StrOf(env.call),
                          ops, S, g.cache)
       [] OTHER -> Unhandled(ops, S, g.cache)

\* GET /repository/{repo_id}/search
search_text(S, C, repo_id, env) ==
  Plain(S, C, repo_id, env, "search_text", RepoRoot, "hits")

\* answers 204 without touching the registry
delete_repo_keeps(S, C, repo_id) ==
  IF repo_id \notin DOMAIN S THEN RepoNotFound(S, C)
  ELSE Response(204, <<>>, "-", NoId, {}, S, C)

\* DELETE /repository/{repo_id}
delete_repo(S, C, repo_id) ==
  LET d == registry_delete(S, C, repo_id)
  IN IF d.exc = "KeyError" THEN RepoNotFound(S, C)
     ELSE Response(204, <<>>, "-", NoId, {}, d.store, d.cache)

\* GET /repository/{repo_id}/symbols
api_extract_symbols(S, C, repo_id, path, env) ==
  Plain(S, C, repo_id, env, "extract_symbols", HttpTarget(path), "symbols")

\* GET /repository/{repo_id}/usages: file_path only filters the answer
api_find_symbol_usages(S, C, repo_id, path, env) ==
  Plain(S, C, repo_id, env, "find_symbol_usages", RepoRoot, "usages")

\* GET /repository/{repo_id}/index
get_full_index(S, C, repo_id, env) ==
  Plain(S, C, repo_id, env, "index", RepoRoot, "index")

\* the except clauses of get_summary
SummaryError(exc, ops, S, C) ==
  CASE exc = "FileNotFoundError" -> HTTPException(404, StrOf(exc), ops, S, C)
    [] exc = "ValueError" ->
         HTTPException(400, <<"Configuration error: ">> \o StrOf(exc), ops, S, C)
    [] exc = "LLMError" ->
         HTTPException(503, <<"LLM service error: ">> \o StrOf(exc), ops, S, C)
    [] exc = "ImportError" ->
         HTTPException(501, <<"Server capability error: Missing LLM SDK: ">> \o StrOf(exc),
                       ops, S, C)
    [] OTHER -> Unhandled(ops, S, C)

\* if summary_text is None ... else return {"summary": summary_text}
SummaryText(outcome, ops, S, C) ==
  IF outcome = "None"
  THEN HTTPException(500, <<"Failed to generate summary.">>, ops, S, C)
  ELSE Ok("summary", ops, S, C)

\* GET /repository/{repo_id}/summary
get_summary(S, C, repo_id, path, symbol_name, env) ==
  LET g == registry_get_repo(S, C, repo_id, env.repo)
      target == HttpTarget(path)
      fnOps == {Op("summarize_function", target)}
      clsOps == fnOps \cup {Op("summarize_class", target)}
      fileOps == {Op("summarize_file", target)}
  IN CASE g.exc = "KeyError" -> RepoNotFound(S, C)
       [] g.exc \notin {"KeyError", "-"} -> Unhandled({}, S, g.cache)
       [] g.exc = "-" /\ env.call # "ok" -> SummaryError(env.call, {}, S, g.cache)
       [] g.exc = "-" /\ env.call = "ok" /\ SymbolGiven(symbol_name) ->
            CASE env.fn \in {"ok", "None"} -> SummaryText(env.fn, fnOps, S, g.cache)
              [] env.fn = "SymbolNotFoundError" ->
                   CASE env.cls \in {"ok", "None"} ->
                          SummaryText(env.cls, clsOps, S, g.cache)
                     [] env.cls = "SymbolNotFoundError" ->
                          HTTPException(404,
                            <<"Symbol '", symbol_name,
                              "' not found as a function or class in '",
                              PathText(path), "'.">>,
                            clsOps, S, g.cache)
                     [] OTHER -> SummaryError(env.cls, clsOps, S, g.cache)
              [] OTHER -> SummaryError(env.fn, fnOps, S, g.cache)
       [] OTHER ->
            IF env.file \in {"ok", "None"}
            THEN SummaryText(env.file, fileOps, S, g.cache)
            ELSE SummaryError(env.file, fileOps, S, g.cache)

\* GET /repository/{repo_id}/semantic-search
api_semantic_search(S, C, repo_id, env) ==
  LET g == registry_get_repo(S, C, repo_id, env.repo)
      ops == {Op("search_semantic", RepoRoot)}
  IN CASE g.exc = "KeyError" -> RepoNotFound(S, C)
       [] g.exc \notin {"KeyError", "-"} -> Unhandled({}, S, g.cache)
       [] g.exc = "-" /\ env.call = "ok" -> Ok("results", ops, S, g.cache)
       [] g.exc = "-" /\ env.call = "ImportError" ->
            HTTPException(501,
              <<"Server capability error: Missing vector search dependency: ">>
                \o StrOf(env.call), ops, S, g.cache)
       [] g.exc = "-" /\ env.call = "ValueError" ->
            HTTPException(400, <<"Search parameter error: ">> \o StrOf(env.call),
                          ops, S, g.cache)
       [] OTHER -> Unhandled(ops, S, g.cache)

\* the except clauses of analyze_dependencies
DependencyError(exc, ops, S, C) ==
  CASE exc = "ValueError" -> HTTPException(400, StrOf(exc), ops, S, C)
    [] exc = "FileNotFoundError" -> HTTPException(404, StrOf(exc), ops, S, C)
    [] OTHER -> Unhandled(ops, S, C)

\* GET /repository/{repo_id}/dependencies; env.call is get_dependency_analyzer,
\* env.file is analyzer.analyze
api_analyze_dependencies(S, C, repo_id, path, env) ==
  LET g == registry_get_repo(S, C, repo_id, env.repo)
      ops == {Op("analyze", HttpTarget(path))}
  IN CASE g.exc = "KeyError" -> RepoNotFound(S, C)
       [] g.exc \notin {"KeyError", "-"} -> Unhandled({}, S, g.cache)
       [] g.exc = "-" /\ env.call # "ok" -> DependencyError(env.call, {}, S, g.cache)
       [] g.exc = "-" /\ env.call = "ok" /\ env.file # "ok" ->
            DependencyError(env.file, ops, S, g.cache)
       [] OTHER -> Ok("graph", ops, S, g.cache)

(***************************************************************************)
(* Requests to the HTTP gateway.  resp is the last exchange; registered    *)
(* and was_deleted say what the registry held when the request arrived.    *)
(* deleted holds the ids a DELETE answered 204 for and no POST has         *)
(* registered since; remembered is one earlier successful POST.            *)
(***************************************************************************)
NoPost == [source |-> "-", ref |-> "-", id |-> NoId]

InitResp ==
  [endpoint |-> "-", repo_id |-> NoId, source |-> "-", ref |-> "-", path |-> None,
   symbol |-> NoSymbol, env |-> HttpOk, registered |-> FALSE, was_deleted |-> FALSE,
   remembered |-> NoPost, status |-> 0, detail |-> <<>>, body |-> "-", id |-> NoId,
   ops |-> {}]

Served(endpoint, repo_id, source, ref, path, symbol, env, r) ==
  /\ store' = r.store
  /\ cache' = r.cache
  /\ resp' = [endpoint |-> endpoint, repo_id |-> repo_id, source |-> source,
              ref |-> ref, path |-> path, symbol |-> symbol, env |-> env,
              registered |-> repo_id \in DOMAIN store,
              was_deleted |-> repo_id \in deleted,
              remembered |-> remembered,
              status |-> r.status, detail |-> r.detail, body |-> r.body,
              id |-> r.id, ops |-> r.ops]
  /\ UNCHANGED <<mcpVars, libVars, prVars>>

Get(endpoint, repo_id, path, symbol, env, r) ==
  /\ Served(endpoint, repo_id, "-", "-", path, symbol, env, r)
  /\ UNCHANGED <<deleted, remembered>>

\* POST /repository; keep says whether this is the POST later ones are compared to
PostRepository(sources, refs, envs, keeps) ==
  \E path_or_url \in sources, ref \in refs, env \in envs, keep \in keeps :
    LET r == open_repo(store, cache, path_or_url, ref, env)
    IN /\ Served("open_repo", handle_id(path_or_url, ref), path_or_url, ref, None,
                 NoSymbol, env, r)
       /\ deleted' = deleted \ {handle_id(path_or_url, ref)}
       /\ remembered' = IF keep /\ r.status = 201
                        THEN [source |-> path_or_url, ref |-> ref, id |-> r.id]
                        ELSE remembered

DeleteRepository(ids) ==
  \E repo_id \in ids :
    LET r == delete_repo(store, cache, repo_id)
    IN /\ Served("delete_repo", repo_id, "-", "-", None, NoSymbol, HttpOk, r)
       /\ deleted' = IF r.status = 204 THEN deleted \cup {repo_id} ELSE deleted
       /\ UNCHANGED remembered

HttpGetFileTree(ids, envs) ==
  \E repo_id \in ids, env \in envs :
    Get("get_file_tree", repo_id, None, NoSymbol, env,
        api_get_file_tree(store, cache, repo_id, env))

HttpGetFileContent(ids, paths, envs) ==
  \E repo_id \in ids, path \in paths \ {None}, env \in envs :
    Get("get_file_content", repo_id, path, NoSymbol, env,
        api_get_file_content(store, cache, repo_id, path, env))

HttpSearchText(ids, envs) ==
  \E repo_id \in ids, env \in envs :
    Get("search_text", repo_id, None, NoSymbol, env,
        search_text(store, cache, repo_id, env))

HttpExtractSymbols(ids, paths, envs) ==
  \E repo_id \in ids, path \in paths, env \in envs :
    Get("extract_symbols", repo_id, path, NoSymbol, env,
        api_extract_symbols(store, cache, repo_id, path, env))

HttpFindSymbolUsages(ids, paths, envs) ==
  \E repo_id \in ids, path \in paths, env \in envs :
    Get("find_symbol_usages", repo_id, path, "sym", env,
        api_find_symbol_usages(store, cache, repo_id, path, env))

HttpGetFullIndex(ids, envs) ==
  \E repo_id \in ids, env \in envs :
    Get("get_full_index", repo_id, None, NoSymbol, env,
        get_full_index(store, cache, repo_id, env))

HttpGetSummary(ids, paths, symbols, envs) ==
  \E repo_id \in ids, path \in paths \ {None}, symbol_name \in symbols, env \in envs :
    Get("get_summary", repo_id, path, symbol_name, env,
        get_summary(store, cache, repo_id, path, symbol_name, env))

HttpSemanticSearch(ids, envs) ==
  \E repo_id \in ids, env \in envs :
    Get("semantic_search", repo_id, None, NoSymbol, env,
        api_semantic_search(store, cache, repo_id, env))

HttpAnalyzeDependencies(ids, paths, envs) ==
  \E repo_id \in ids, path \in paths, env \in envs :
    Get("analyze_dependencies", repo_id, path, NoSymbol, env,
        api_analyze_dependencies(store, cache, repo_id, path, env))

\* the registry of a freshly started application
InitHTTP ==
  /\ store = <<>>
  /\ cache = {}
  /\ deleted = {}
  /\ remembered = NoPost
  /\ resp = InitResp

(***************************************************************************)
(* Summarizer (kit/summaries.py)                                           *)
(*                                                                         *)
(* scenario is everything outside the Summarizer that one call depends on: *)
(*   config     the configuration class in use                             *)
(*   api_key    whether the provider's API key is set                      *)
(*   sdk        the provider SDK: installed, missing, or failing to import *)
(*              because a module of its own is missing                     *)
(*   tokenizer  whether tiktoken has an encoder for the model              *)
(*   tokens     the token count of the chat prompt under that encoder      *)
(*   exists, blank, size   the file (size is the length of the file's      *)
(*              content, or of the symbol's code, in characters)           *)
(*   found      whether the file has a symbol of the wanted name and type  *)
(*   provider   what the provider does with the request                    *)
(* summarized is the latest Summarizer call and its outcome.               *)
(***************************************************************************)
MAX_CODE_LENGTH_CHARS == 50000
MAX_FILE_SUMMARIZE_CHARS == 25000
OPENAI_MAX_PROMPT_TOKENS == 15000
MAX_CHARS_FOR_SUMMARY == 400000

Configs == {"OpenAIConfig", "AnthropicConfig", "GoogleConfig"}

\* text, no text (None or ""), whitespace only, a safety block, a transport error
ProviderBehaviours == {"text", "none", "whitespace", "blocked", "error"}

\* content lengths on both sides of every limit
Sizes ==
  {1, MAX_FILE_SUMMARIZE_CHARS, MAX_FILE_SUMMARIZE_CHARS + 1,
   MAX_CODE_LENGTH_CHARS, MAX_CODE_LENGTH_CHARS + 1,
   MAX_CHARS_FOR_SUMMARY, MAX_CHARS_FOR_SUMMARY + 1}

TokenCounts == {OPENAI_MAX_PROMPT_TOKENS, OPENAI_MAX_PROMPT_TOKENS + 1}

Scenarios ==
  [config : Configs, api_key : {"set", "unset"},
   sdk : {"installed", "missing", "dependency missing"},
   tokenizer : {"available", "none"}, tokens : TokenCounts,
   exists : BOOLEAN, blank : BOOLEAN, found : BOOLEAN,
   symbol_type : {"FUNCTION", "CLASS"}, size : Sizes,
   provider : ProviderBehaviours]

\* a configured provider that answers with a summary of a small file
Nominal ==
  [config |-> "OpenAIConfig", api_key |-> "set", sdk |-> "installed",
   tokenizer |-> "available", tokens |-> OPENAI_MAX_PROMPT_TOKENS,
   exists |-> TRUE, blank |-> FALSE, found |-> TRUE, symbol_type |-> "FUNCTION",
   size |-> 1, provider |-> "text"]

\* outcomes of a Summarizer call; requests counts the requests sent to the provider
Returns(text, requests) ==
  [kind |-> "return", exc |-> "-", message |-> <<>>, text |-> text, requests |-> requests]

Raises(exc, message, requests) ==
  [kind |-> "raise", exc |-> exc, message |-> message, text |-> <<>>, requests |-> requests]

\* XxxConfig.__post_init__
config_post_init(sc) ==
  IF sc.api_key = "unset"
  THEN Raises("ValueError", <<"API key not found">>, 0)
  ELSE Returns(<<>>, 0)

\* Summarizer._get_llm_client with no client passed in
_get_llm_client(sc) ==
  CASE sc.sdk = "installed" -> Returns(<<>>, 0)
    [] sc.sdk = "missing" /\ sc.config = "GoogleConfig" ->
         Raises("LLMError",
                <<"Error initializing LLM client: ", "Google Gen AI SDK is not installed">>, 0)
    [] sc.sdk = "missing" /\ sc.config # "GoogleConfig" ->
         Raises("LLMError", <<"The SDK is not installed">>, 0)
    [] sc.sdk = "dependency missing" /\ sc.config = "GoogleConfig" ->
         Raises("LLMError",
                <<"Error initializing LLM client: ", "Google Gen AI SDK is not installed">>, 0)
    [] OTHER -> Raises("ImportError", <<"No module named">>, 0)

\* Summarizer._count_openai_chat_tokens: NoCount is None
NoCount == -1
_count_openai_chat_tokens(sc) ==
  IF sc.tokenizer = "available" THEN sc.tokens ELSE NoCount

\* str.strip on the texts a provider answers with
strip(text) == IF text = <<" ">> THEN <<>> ELSE text

BlockReason == "SAFETY"

\* the provider-specific branch of a summarize operation: the summary it
\* assigns, or the exception the SDK call raises
ProviderBranch(sc) ==
  LET count == _count_openai_chat_tokens(sc)
      reply == CASE sc.provider = "text" -> <<"summary">>
                 [] sc.provider = "whitespace" -> <<" ">>
                 [] OTHER -> <<>>
  IN CASE sc.config = "OpenAIConfig" /\ count # NoCount /\ count > OPENAI_MAX_PROMPT_TOKENS ->
            Returns(<<"Summary generation failed: OpenAI prompt too large (",
                      ToString(count), " tokens).">>, 0)
       [] sc.provider = "error" -> Raises("APIError", <<"connection failed">>, 1)
       [] sc.provider = "blocked" /\ sc.config # "GoogleConfig" ->
            Raises("APIError", <<"blocked: ", BlockReason>>, 1)
       [] sc.provider = "blocked" /\ sc.config = "GoogleConfig" ->
            Returns(<<"Summary generation failed: Prompt blocked by API (Reason: ",
                      BlockReason, ")">>, 1)
       [] sc.provider = "none" /\ sc.config = "GoogleConfig" ->
            Returns(<<"Summary generation failed: No text returned by API.">>, 1)
       [] OTHER -> Returns(reply, 1)

\* the try block shared by the three operations: the provider branch, the
\* empty-summary check, and `except Exception` wrapping everything as LLMError
AskProvider(sc, prefix, what) ==
  LET b == ProviderBranch(sc)
  IN CASE b.kind = "raise" -> Raises("LLMError", <<prefix>> \o b.message, b.requests)
       [] b.kind = "return" /\ strip(b.text) = <<>> ->
            Raises("LLMError", <<prefix, "LLM returned an empty summary for ", what>>,
                   b.requests)
       [] OTHER -> Returns(strip(b.text), b.requests)

\* the placeholder for content that is too large
TooLarge_short_text(what, size, tail) ==
  Returns(<<what, " content too large (", ToString(size), " characters) to summarize", ".">>,
          0)

TooLarge(what, size, tail) ==
  Returns(<<what, " content too large (", ToString(size), " characters) to summarize", tail>>,
          0)

\* Summarizer.summarize_file
summarize_file(sc) ==
  CASE ~sc.exists -> Raises("FileNotFoundError", <<"File not found via repo: ">>, 0)
    [] sc.exists /\ sc.blank -> Returns(<<>>, 0)
    [] sc.exists /\ ~sc.blank /\ sc.size > MAX_FILE_SUMMARIZE_CHARS ->
         TooLarge("File", sc.size, " with current limits.")
    [] sc.exists /\ ~sc.blank /\ sc.size <= MAX_FILE_SUMMARIZE_CHARS
       /\ sc.size > MAX_CHARS_FOR_SUMMARY ->
         TooLarge("File", sc.size, ".")
    [] OTHER ->
         LET client == _get_llm_client(sc)
         IN IF client.kind = "raise" THEN client
            ELSE AskProvider(sc, "Error communicating with LLM API: ", "file")

\* the loop over repo.extract_symbols(file_path): a symbol of the name asked
\* for, of a type the operation takes
has_symbol(sc, lower) ==
  /\ sc.found
  /\ lower = "function" => sc.symbol_type \in {"FUNCTION", "METHOD"}
  /\ lower = "class" => sc.symbol_type = "CLASS"

\* summarize_function and summarize_class, which differ in the type of symbol
\* they look for and in their texts
summarize_symbol(sc, what, lower) ==
  CASE ~sc.exists -> Raises("FileNotFoundError", <<"File not found">>, 0)
    [] sc.exists /\ ~has_symbol(sc, lower) ->
         Raises("ValueError", <<"Could not find ", lower>>, 0)
    [] sc.exists /\ has_symbol(sc, lower) /\ sc.size > MAX_CHARS_FOR_SUMMARY ->
         TooLarge(what, sc.size, ".")
    [] OTHER ->
         LET client == _get_llm_client(sc)
         IN IF client.kind = "raise" THEN client
            ELSE AskProvider(sc, "Error communicating with LLM API for " \o lower \o ": ",
                             lower)

\* Summarizer.summarize_function
summarize_function(sc) == summarize_symbol(sc, "Function", "function")

\* Summarizer.summarize_class
summarize_class(sc) == summarize_symbol(sc, "Class", "class")

NotSummarized == [op |-> "-", out |-> Returns(<<>>, 0)]

SummarizeFile ==
  /\ summarized' = [op |-> "summarize_file", out |-> summarize_file(scenario)]
  /\ UNCHANGED <<mcpVars, httpVars, scenario, prVars>>

SummarizeFunction ==
  /\ summarized' = [op |-> "summarize_function", out |-> summarize_function(scenario)]
  /\ UNCHANGED <<mcpVars, httpVars, scenario, prVars>>

SummarizeClass ==
  /\ summarized' = [op |-> "summarize_class", out |-> summarize_class(scenario)]
  /\ UNCHANGED <<mcpVars, httpVars, scenario, prVars>>

\* repo.get_summarizer() as get_summary calls it: a Summarizer is built,
\* and with it the configuration, whose __post_init__ wants the API key
get_summarizer(sc) == config_post_init(sc)

\* what a handler that calls the Summarizer sees: "ok" or the exception's class
Seen(out) == IF out.kind = "return" THEN "ok" ELSE out.exc

\* the behaviour of get_summary's collaborators in a scenario
SummarizerEnv(sc) ==
  [repo |-> "ok", call |-> Seen(get_summarizer(sc)), fn |-> Seen(summarize_function(sc)),
   cls |-> Seen(summarize_class(sc)), file |-> Seen(summarize_file(sc))]

(***************************************************************************)
(* SimplePRReviewer (src/kit/pr_review/simple_reviewer.py)                 *)
(***************************************************************************)
\* what a GitHub request can do: answer, answer with an error status that
\* raise_for_status turns into HTTPError, or fail in transport; both
\* failures are requests.RequestException
FetchOutcomes == {"ok", "HTTPError", "ConnectionError"}

Failed(outcome) == outcome # "ok"

\* validation.score < 0.6 warns; scores are kept in tenths
LOW_QUALITY_TENTHS == 6

\* a reviewer as constructed: config.llm.provider, and whether that
\* provider's package can be imported where it runs
Reviewers == [provider : {"anthropic", "openai"}, sdk : {"installed", "missing"}]

NoReviewer == [provider |-> "-", sdk |-> "-"]

\* the pieces a PR input is written with: the scheme and host up to their
\* slash, a digit, a slash, and the text "/pull/"
GitHubHost == "https://github.com/"

UrlPieces == {GitHubHost, "1", "/", "/pull/"}

\* [^/] of the pattern, among the pieces
NotSlash == {"1"}

\* \d of the pattern, among the pieces
Digits == {"1"}

UrlTexts == UNION {[1..n -> UrlPieces] : n \in 0..MaxUrlLen}

\* the first position at or after i whose piece is not in the class
RECURSIVE SkipWhile(_, _, _)
SkipWhile(text, i, class) ==
  IF i <= Len(text) /\ text[i] \in class THEN SkipWhile(text, i + 1, class) ELSE i

At(text, i) == IF i <= Len(text) THEN text[i] ELSE "<end>"

Parsed(owner, repo, pr_number) ==
  [kind |-> "return", exc |-> "-", owner |-> owner, repo |-> repo, pr_number |-> pr_number]

InvalidUrl ==
  [kind |-> "raise", exc |-> "ValueError", owner |-> <<>>, repo |-> <<>>, pr_number |-> <<>>]

\* parse_pr_url: re.match of https://github\.com/([^/]+)/([^/]+)/pull/(\d+),
\* which is anchored at the start of the text only
parse_pr_url(text) ==
  LET owner_end == SkipWhile(text, 2, NotSlash)
      repo_end == SkipWhile(text, owner_end + 1, NotSlash)
      number_end == SkipWhile(text, repo_end + 1, Digits)
  IN  IF /\ At(text, 1) = GitHubHost
         /\ owner_end > 2 /\ At(text, owner_end) = "/"
         /\ repo_end > owner_end + 1 /\ At(text, repo_end) = "/pull/"
         /\ number_end > repo_end + 1
      THEN Parsed(SubSeq(text, 2, owner_end - 1), SubSeq(text, owner_end + 1, repo_end - 1),
                  SubSeq(text, repo_end + 1, number_end - 1))
      ELSE InvalidUrl

\* a pull request's address, and a text that is none
PullRequestUrl == <<GitHubHost, "1", "/", "1", "/pull/", "1">>

UrlExamples == {PullRequestUrl, <<"1">>}

\* one run's input and the behaviour of what it talks to: GitHub's replies
\* (and whether the PR changed before the second diff request), the
\* provider's reply, and what validate_review_quality does
AllRuns ==
  [pr_input : UrlExamples,
   details : FetchOutcomes, files : FetchOutcomes,
   diff : FetchOutcomes, diff_again : FetchOutcomes, pr_changed : BOOLEAN,
   llm : {"text", "APIError"},
   validator : {"ok", "Exception"},
   score : {LOW_QUALITY_TENTHS - 1, LOW_QUALITY_TENTHS}]

\* runs on a PR that stays as it is, with a validator that returns a low score
Runs ==
  {run \in AllRuns :
     ~run.pr_changed /\ run.validator = "ok" /\ run.score < LOW_QUALITY_TENTHS}

NoRun ==
  [pr_input |-> <<>>, details |-> "-", files |-> "-", diff |-> "-", diff_again |-> "-",
   pr_changed |-> FALSE, llm |-> "-", validator |-> "-", score |-> 0]

\* a request the run sent, to GitHub or to the provider, and how it went
Event(call, outcome) == [call |-> call, outcome |-> outcome]

\* usage: the LLM calls of this run that were tracked; tracked: the records
\* the instance's cost tracker holds afterwards; cost_summary: the records
\* behind the summary the run prints
ReviewReturns(run, log, comment, prompt_diff, validation, usage, tracked) ==
  [run |-> run, kind |-> "return", exc |-> "-", message |-> <<>>, comment |-> comment,
   log |-> log, prompt_diff |-> prompt_diff, validated |-> validation.validated,
   validated_diff |-> validation.diff, warnings |-> validation.printed,
   usage |-> usage, tracked |-> tracked, cost_summary |-> tracked]

ReviewRaises(run, log, message, prompt_diff, usage, tracked) ==
  [run |-> run, kind |-> "raise", exc |-> "RuntimeError", message |-> message,
   comment |-> <<>>, log |-> log, prompt_diff |-> prompt_diff, validated |-> FALSE,
   validated_diff |-> <<>>, warnings |-> <<>>,
   usage |-> usage, tracked |-> tracked, cost_summary |-> 0]

NoReview ==
  [run |-> NoRun, kind |-> "none", exc |-> "-", message |-> <<>>, comment |-> <<>>,
   log |-> <<>>, prompt_diff |-> <<>>, validated |-> FALSE, validated_diff |-> <<>>,
   warnings |-> <<>>, usage |-> 0, tracked |-> 0, cost_summary |-> 0]

\* review_pr_simple: did parse_pr_url accept the input
parse_pr_url_matches(run) == parse_pr_url(run.pr_input).kind = "return"

\* what GitHub answers to the diff request, first and second time
first_diff == <<"diff">>

second_diff(run) == IF run.pr_changed THEN <<"diff of the changed PR">> ELSE first_diff

\* analyze_pr_simple: the diff that goes into the prompt
prompt_pr_diff(run) ==
  IF Failed(run.diff) THEN <<"Error retrieving diff: ">> \o StrOf(run.diff)
  ELSE first_diff

\* _analyze_with_anthropic_simple / _analyze_with_openai_simple
_analyze_with_llm(rv, run) ==
  IF rv.sdk = "missing"
  THEN [kind |-> "raise", text |-> <<rv.provider, " package not installed">>,
        log |-> <<>>, usage |-> 0]
  ELSE IF run.llm = "text"
  THEN [kind |-> "return", text |-> <<"analysis">>,
        log |-> <<Event("llm", "ok")>>, usage |-> 1]
  ELSE [kind |-> "return",
        text |-> <<"Error during simple LLM analysis: ">> \o StrOf(run.llm),
        log |-> <<Event("llm", run.llm)>>, usage |-> 0]

\* analyze_pr_simple: fetch the diff, build the prompt, ask the provider
analyze_pr_simple(rv, run) ==
  LET asked == _analyze_with_llm(rv, run)
  IN  [asked EXCEPT !.log = <<Event("get_pr_diff", run.diff)>> \o asked.log]

\* the body of the validation try block: fetch the diff again, score the
\* analysis against it, print the score and the warning
validate_review(run) ==
  IF Failed(run.diff_again)
  THEN [kind |-> "raise", exc |-> run.diff_again, validated |-> FALSE, diff |-> <<>>,
        printed |-> <<>>]
  ELSE IF run.validator # "ok"
  THEN [kind |-> "raise", exc |-> run.validator, validated |-> TRUE,
        diff |-> second_diff(run), printed |-> <<>>]
  ELSE [kind |-> "return", exc |-> "-", validated |-> TRUE, diff |-> second_diff(run),
        printed |-> IF run.score < LOW_QUALITY_TENTHS
                    THEN <<"Review Quality Score", "LOW QUALITY REVIEW DETECTED">>
                    ELSE <<"Review Quality Score">>]

\* the validation step without its except clause
validation_step_unguarded(run) == validate_review(run)

\* the validation step of review_pr_simple: whatever the try block raises is
\* printed as a warning
validation_step(run) ==
  LET tried == validate_review(run)
  IN  IF tried.kind = "raise"
      THEN [tried EXCEPT !.kind = "return",
                         !.printed = <<"Could not validate review quality: ">>
                                       \o StrOf(tried.exc)]
      ELSE tried

\* what the validation step prints
validation_warnings(run) == validation_step(run).printed

_generate_review_comment(rv, analysis) ==
  <<"## Kit Code Review">> \o analysis \o <<"Generated by cased kit using ", rv.provider>>

\* cost_tracker.track_llm_usage on the instance's tracker, once per tracked call
track_llm_usage(tracker, usage) == tracker + usage

\* review_pr_simple on a reviewer whose cost tracker holds `tracker` records
review_pr_simple(rv, tracker, run) ==
  IF ~parse_pr_url_matches(run)
  THEN ReviewRaises(run, <<>>,
                    <<"Simple review failed: ", "Invalid GitHub PR URL: ">> \o run.pr_input,
                    <<>>, 0, tracker)
  ELSE IF Failed(run.details)
  THEN ReviewRaises(run, <<Event("get_pr_details", run.details)>>,
                    <<"GitHub API error: ">> \o StrOf(run.details), <<>>, 0, tracker)
  ELSE IF Failed(run.files)
  THEN ReviewRaises(run, <<Event("get_pr_details", "ok"), Event("get_pr_files", run.files)>>,
                    <<"GitHub API error: ">> \o StrOf(run.files), <<>>, 0, tracker)
  ELSE LET analysis == analyze_pr_simple(rv, run)
           log == <<Event("get_pr_details", "ok"), Event("get_pr_files", "ok")>>
                    \o analysis.log
           tracked == track_llm_usage(tracker, analysis.usage)
           validation == validation_step(run)
       IN  IF analysis.kind = "raise"
           THEN ReviewRaises(run, log, <<"Simple review failed: ">> \o analysis.text,
                             prompt_pr_diff(run), analysis.usage, tracked)
           ELSE IF validation.kind = "raise"
           THEN ReviewRaises(run, log \o <<Event("get_pr_diff", run.diff_again)>>,
                             <<"Simple review failed: ">> \o StrOf(validation.exc),
                             prompt_pr_diff(run), analysis.usage, tracked)
           ELSE ReviewReturns(run, log \o <<Event("get_pr_diff", run.diff_again)>>,
                              _generate_review_comment(rv, analysis.text),
                              prompt_pr_diff(run), validation, analysis.usage, tracked)

ReviewPrSimple(runs) ==
  /\ cost_tracker < MaxTracked
  /\ \E run \in runs :
       LET out == review_pr_simple(reviewer, cost_tracker, run)
       IN  /\ review' = out
           /\ cost_tracker' = out.tracked
  /\ UNCHANGED <<mcpVars, httpVars, libVars, reviewer, parsed, cliVars>>

NotParsed == [input |-> <<>>, called |-> FALSE, out |-> InvalidUrl]

\* parse_pr_url called on the text at hand
ParsePrUrl ==
  /\ ~parsed.called
  /\ parsed' = [parsed EXCEPT !.called = TRUE, !.out = parse_pr_url(parsed.input)]
  /\ UNCHANGED <<mcpVars, httpVars, libVars, reviewer, review, cost_tracker, cliVars>>

(***************************************************************************)
(* kit review (src/kit/cli.py, review_pr)                                  *)
(***************************************************************************)
\* an option that was not given
NoOption == "<None>"

\* kit.pr_review.config._detect_provider_from_model, on the names the tests
\* pin down
ModelNames == {"gpt-4o", "claude-3-opus", "llama3.2:latest", "unknown-model"}

_detect_provider_from_model(model) ==
  CASE model = "gpt-4o" -> "openai"
    [] model = "claude-3-opus" -> "anthropic"
    [] model = "llama3.2:latest" -> "ollama"
    [] OTHER -> NoOption

\* --agentic-turns thresholds of the expected-cost message
BUDGET_TURNS == 8
STANDARD_TURNS == 15

\* command lines that ask for a review
ReviewInvocations ==
  [kind : {"review"},
   profile : {NoOption, "company-standards"},
   priority : {NoOption, "high", "urgent"},
   model : {NoOption} \cup ModelNames,
   plain : BOOLEAN, dry_run : BOOLEAN, agentic : BOOLEAN,
   agentic_turns : {BUDGET_TURNS, STANDARD_TURNS, STANDARD_TURNS + 1}]

DefaultFlags(kind) ==
  [kind |-> kind, profile |-> NoOption, priority |-> NoOption, model |-> NoOption,
   plain |-> FALSE, dry_run |-> FALSE, agentic |-> FALSE, agentic_turns |-> STANDARD_TURNS]

\* kit review --init-config, kit review without a URL, the debug command
\* `simple` with --dry-run (its default) and with --post, and
\* kit review <url> with options
Invocations ==
  {DefaultFlags("init-config"), DefaultFlags("no url"),
   [DefaultFlags("debug simple") EXCEPT !.dry_run = TRUE], DefaultFlags("debug simple")}
    \cup {inv \in ReviewInvocations : ~inv.agentic => inv.agentic_turns = STANDARD_TURNS}

\* what the command finds: whether the config file operation (load, or
\* create for --init-config) works, the provider and post_as_comment the file
\* configures, which API key variables are set, whether CostTracker knows
\* the model, and whether the reviewer's run succeeds
CliEnvs ==
  [file : {"ok", "ValueError"},
   provider : {"anthropic", "openai", "ollama"},
   post_as_comment : BOOLEAN,
   anthropic_key : BOOLEAN, openai_key : BOOLEAN,
   valid_model : BOOLEAN,
   review : {"ok", "Exception"}]

\* ReviewConfig.from_file: the api_key is the configured provider's own
from_file(env) ==
  [provider |-> env.provider, api_key |-> env.provider \o " key from config",
   model |-> "configured model", post_as_comment |-> env.post_as_comment,
   quiet |-> FALSE, priority_filter |-> NoOption, agentic_max_turns |-> 0]

NoConfig ==
  [provider |-> "-", api_key |-> "-", model |-> "-", post_as_comment |-> FALSE,
   quiet |-> FALSE, priority_filter |-> NoOption, agentic_max_turns |-> 0]

\* the command still running: what it has written to standard output and
\* the ReviewConfig it holds
Running(stdout, config) == [code |-> -1, stdout |-> stdout, config |-> config]

\* raise typer.Exit(code=1)
Exit1(stdout, config) == [code |-> 1, stdout |-> stdout, config |-> config]

\* handle_cli_error called inside review_pr's try: it prints and raises
\* typer.Exit, a RuntimeError, which `except Exception` prints and raises again
handle_cli_error(stdout, config, error_type, help_text) ==
  Exit1(stdout \o <<error_type, help_text, "Review failed: ">>, config)

\* echo when not in plain mode
EchoUnlessPlain(inv, st, line) ==
  IF inv.plain THEN st ELSE [st EXCEPT !.stdout = @ \o <<line>>]

\* review_pr: parse priority filter
priority_step(inv, st) ==
  IF inv.priority = NoOption THEN st
  ELSE IF inv.priority = "high"
  THEN EchoUnlessPlain(inv, [st EXCEPT !.config.priority_filter = inv.priority],
                       "Priority filter: high")
  ELSE handle_cli_error(st.stdout, st.config, "Priority filter error",
                        "Valid priorities: high, medium, low")

\* review_pr: the API key looked up for the provider switched to
new_api_key(env, detected_provider) ==
  IF detected_provider = "anthropic"
  THEN IF env.anthropic_key THEN "KIT_ANTHROPIC_TOKEN" ELSE NoOption
  ELSE IF env.openai_key THEN "KIT_OPENAI_TOKEN" ELSE NoOption

\* review_pr: typer.echo of the provider switch
switch_message(inv, st, line) == [st EXCEPT !.stdout = @ \o <<line>>]

\* review_pr: override model if specified
model_step(inv, env, st) ==
  IF inv.model = NoOption THEN st
  ELSE LET detected_provider == _detect_provider_from_model(inv.model)
           key == new_api_key(env, detected_provider)
           switched ==
             IF detected_provider # NoOption /\ detected_provider # st.config.provider
             THEN IF key = NoOption
                  THEN handle_cli_error(st.stdout,
                                        [st.config EXCEPT !.provider = detected_provider],
                                        "Configuration error",
                                        IF detected_provider = "anthropic"
                                        THEN "Set KIT_ANTHROPIC_TOKEN environment variable"
                                        ELSE "Set KIT_OPENAI_TOKEN environment variable")
                  ELSE switch_message(inv,
                                      [st EXCEPT !.config.provider = detected_provider,
                                                 !.config.api_key = key],
                                      "Switched provider")
             ELSE st
       IN  IF switched.code = 1 THEN switched
           ELSE EchoUnlessPlain(inv, [switched EXCEPT !.config.model = inv.model],
                                "Overriding model")

\* review_pr: validate model exists
validate_model_step(env, st) ==
  IF env.valid_model THEN st
  ELSE handle_cli_error(st.stdout, st.config, "Model validation error",
                        "Run 'kit review --help' to see available models")

\* the override skipped: the file's post_as_comment stands
posting_step_keeps_config(inv, st) == st

\* review_pr: override comment posting if dry run or plain mode, and quiet
posting_step(inv, st) ==
  LET dry == IF inv.dry_run \/ inv.plain
             THEN EchoUnlessPlain(inv, [st EXCEPT !.config.post_as_comment = FALSE],
                                  "Dry run mode - will not post comments")
             ELSE st
  IN  IF inv.plain THEN [dry EXCEPT !.config.quiet = TRUE] ELSE dry

\* review_pr: configure agentic settings if requested
agentic_step(inv, st) ==
  IF inv.agentic
  THEN LET set == [st EXCEPT !.config.agentic_max_turns = inv.agentic_turns]
       IN  IF inv.plain THEN set
           ELSE [set EXCEPT !.stdout =
                   @ \o <<"Agentic mode configured",
                          IF inv.agentic_turns <= BUDGET_TURNS
                          THEN "Expected cost: budget mode"
                          ELSE IF inv.agentic_turns <= STANDARD_TURNS
                          THEN "Expected cost: standard mode"
                          ELSE "Expected cost: extended mode">>]
  ELSE EchoUnlessPlain(inv, st, "Standard mode configured")

\* review_pr: handle output based on mode
output_step(inv, stdout) ==
  IF inv.plain THEN stdout \o <<"comment">>
  ELSE IF inv.dry_run
  THEN stdout \o <<"====", "REVIEW COMMENT THAT WOULD BE POSTED:", "====", "comment", "====">>
  ELSE stdout \o <<"Review completed and comment posted!">>

\* how the command ended: exit code, standard output, whether a reviewer was
\* constructed and run, which one, and the ReviewConfig it was given
CliResult(code, stdout, constructed, reviewer_class, config) ==
  [ran |-> TRUE, code |-> code, stdout |-> stdout, constructed |-> constructed,
   reviewer |-> reviewer_class, config |-> config]

NotRun ==
  [ran |-> FALSE, code |-> 0, stdout |-> <<>>, constructed |-> FALSE, reviewer |-> "-",
   config |-> NoConfig]

Stopped(st) == CliResult(st.code, st.stdout, FALSE, "-", st.config)

review_pr(inv, env) ==
  IF inv.kind = "init-config"
  THEN IF env.file = "ok"
       THEN CliResult(0, <<"Created default config file", "Next steps">>, FALSE, "-", NoConfig)
       ELSE CliResult(1, <<"Failed to create config">>, FALSE, "-", NoConfig)
  ELSE IF inv.kind = "no url"
  THEN CliResult(1, <<"PR URL is required", "Example", "Or run: kit review --help">>,
                 FALSE, "-", NoConfig)
  ELSE IF env.file # "ok"
  THEN CliResult(1, <<"Configuration error: ", "Try running: kit review --init-config">>,
                 FALSE, "-", NoConfig)
  ELSE LET loaded == Running(<<>>, from_file(env))
           profiled == IF inv.profile # NoOption
                       THEN EchoUnlessPlain(inv, loaded, "Using profile")
                       ELSE loaded
           filtered == priority_step(inv, profiled)
           overridden == IF filtered.code = 1 THEN filtered
                         ELSE model_step(inv, env, filtered)
           validated == IF overridden.code = 1 THEN overridden
                        ELSE validate_model_step(env, overridden)
           configured == IF validated.code = 1 THEN validated
                         ELSE agentic_step(inv, posting_step(inv, validated))
           reviewer_class == IF inv.agentic THEN "AgenticPRReviewer" ELSE "PRReviewer"
       IN  IF configured.code = 1 THEN Stopped(configured)
           ELSE IF env.review # "ok"
           THEN CliResult(1, configured.stdout \o <<"Review failed: ">>, TRUE,
                          reviewer_class, configured.config)
           ELSE CliResult(0, output_step(inv, configured.stdout), TRUE, reviewer_class,
                          configured.config)

\* debug.py, review_pr_simple: what goes wrong is written to standard error
\* and the command returns
debug_review_pr_simple(inv, env) ==
  IF env.file # "ok"
  THEN CliResult(0, <<>>, FALSE, "-", NoConfig)
  ELSE LET loaded == from_file(env)
           config == IF inv.dry_run THEN [loaded EXCEPT !.post_as_comment = FALSE]
                     ELSE loaded
       IN  IF env.review # "ok"
           THEN CliResult(0, <<>>, TRUE, "SimplePRReviewer", config)
           ELSE CliResult(0,
                          IF inv.dry_run
                          THEN <<"====", "SIMPLE REVIEW RESULT (DRY RUN)", "====", "comment">>
                          ELSE <<"Simple review completed and posted!">>,
                          TRUE, "SimplePRReviewer", config)

NoInvocation ==
  [inv |-> DefaultFlags("-"),
   env |-> [file |-> "-", provider |-> "-", post_as_comment |-> FALSE,
            anthropic_key |-> FALSE, openai_key |-> FALSE, valid_model |-> FALSE,
            review |-> "-"]]

\* no command line in play
InitCli ==
  /\ invocation = NoInvocation
  /\ cli = NotRun

\* the debug command runs
DebugSimple ==
  /\ ~cli.ran
  /\ invocation.inv.kind = "debug simple"
  /\ cli' = debug_review_pr_simple(invocation.inv, invocation.env)
  /\ UNCHANGED <<mcpVars, httpVars, libVars, reviewer, review, cost_tracker, parsed,
                 invocation>>

\* the command runs
ReviewPr ==
  /\ ~cli.ran
  /\ invocation.inv.kind \in {"init-config", "no url", "review"}
  /\ cli' = review_pr(invocation.inv, invocation.env)
  /\ UNCHANGED <<mcpVars, httpVars, libVars, reviewer, review, cost_tracker, parsed,
                 invocation>>

\* no Summarizer, no reviewer and no command line in play
InitLib ==
  /\ scenario = Nominal
  /\ summarized = NotSummarized
  /\ reviewer = NoReviewer
  /\ review = NoReview
  /\ cost_tracker = 0
  /\ parsed = NotParsed
  /\ InitCli

\* KitServerLogic.__init__
InitLogic ==
  /\ repos = <<>>
  /\ analyzers = <<>>
  /\ last = InitLast

(***************************************************************************)
(* SpecMCP: a client opening repositories and calling every operation of   *)
(* KitServerLogic on known and unknown ids                                 *)
(***************************************************************************)
InsidePath == MkPath(FALSE, <<"f">>)

InitMCP ==
  /\ InitLogic
  /\ file_path = InsidePath
  /\ InitHTTP
  /\ InitLib

NextMCP ==
  \/ OpenRepository(UUIDs, {"local"})
  \/ SearchCode(RepoIds)
  \/ GetFileContent(RepoIds, {file_path})
  \/ ExtractSymbols(RepoIds, {file_path})
  \/ FindSymbolUsages(RepoIds, {None})
  \/ GetFileTree(RepoIds)
  \/ SemanticSearch(RepoIds)
  \/ GetDocumentation(RepoIds, {None})
  \/ GetCodeSummary(RepoIds, {file_path}, {NoSymbol}, {AllOk})

SpecMCP == InitMCP /\ [][NextMCP]_vars

(***************************************************************************)
(* SpecOpen: a client opening the same and different sources repeatedly    *)
(***************************************************************************)
NextOpen ==
  \/ OpenRepository(UUIDs, Sources)
  \/ GetFileTree(RepoIds)

SpecOpen == InitMCP /\ [][NextOpen]_vars

(***************************************************************************)
(* SpecGuard: one repository, and a client that passes one file path,      *)
(* drawn from every path of at most MaxSegs segments, to every operation   *)
(* that takes one                                                          *)
(***************************************************************************)
OneRepo == {1}

InitGuard ==
  /\ InitLogic
  /\ file_path \in StrPaths
  /\ InitHTTP
  /\ InitLib

NextGuard ==
  \/ OpenRepository(OneRepo, {"local"})
  \/ GetFileContent(OneRepo, {file_path})
  \/ ExtractSymbols(OneRepo, {file_path})
  \/ FindSymbolUsages(OneRepo, {file_path})
  \/ GetDocumentation(OneRepo, {file_path})
  \/ GetCodeSummary(OneRepo, {file_path}, {NoSymbol, "sym"}, FileSummaryEnvs)

SpecGuard == InitGuard /\ [][NextGuard]_vars

(***************************************************************************)
(* SpecSummary: one repository, get_code_summary under every behaviour of  *)
(* the Summarizer                                                          *)
(***************************************************************************)
NextSummary ==
  \/ OpenRepository(OneRepo, {"local"})
  \/ GetCodeSummary(0..1, {file_path}, SymbolNames, SummaryEnvs)

SpecSummary == InitMCP /\ [][NextSummary]_vars

(***************************************************************************)
(* SpecCallTool: one repository, requests arriving at serve.call_tool      *)
(***************************************************************************)
\* all the keys, or all but one
Givens == {ArgKeys} \cup {ArgKeys \ {k} : k \in {"repo_id", "file_path"}}

CallEnvs ==
  RepoEnvs \cup AnalyzerEnvs
  \cup {[AllOk EXCEPT !.file = "LLMError"], [AllOk EXCEPT !.fn = "ValueError"],
        [AllOk EXCEPT !.cls = "LLMError"]}

NextCallTool ==
  CallTool(ToolNames \cup {"no_such_tool"}, OneRepo,
           Arguments(Givens, 0..1, {InsidePath, MkPath(FALSE, <<"..">>)}), CallEnvs)

SpecCallTool == InitMCP /\ [][NextCallTool]_vars

(***************************************************************************)
(* Properties of the tool-call gateway                                     *)
(***************************************************************************)
\* the operations that take a caller-supplied file path
PathOps ==
  {"get_file_content", "extract_symbols", "find_symbol_usages", "get_documentation",
   "get_code_summary"}

\* the operations that take a repo_id
RepoIdOps == PathOps \cup {"get_file_tree", "search_code", "semantic_search"}

\* the latest call passed an open repository a path that resolves to neither
\* the repository root nor a descendant of it
PathEscapes ==
  /\ last.via = "logic"
  /\ last.op \in PathOps
  /\ last.repo_id \in DOMAIN last.before.repos
  /\ ~last.path.none
  /\ ~IsWithin(resolve(last.before.repos[last.repo_id].repo_path, last.path),
               last.before.repos[last.repo_id].repo_path)

\* C1: a call whose file path resolves outside the repository root (by path
\* components) fails, and performs no repository operation
C1_PathSafety ==
  PathEscapes => last.out.kind = "raise" /\ last.out.ops = {}

\* the path resolves to /rb, which has the root /r as a string prefix: the
\* startswith test lets it through and relative_to stops it
C1_Witness ==
  /\ PathEscapes
  /\ last.op = "get_file_content"
  /\ startswith(PathStr(resolve(RepoRoot, last.path)), PathStr(RepoRoot))
  /\ last.out.exc = "ValueError"

\* C3: a path rejected for escaping the root surfaces as MCPError with code
\* INVALID_PARAMS and exactly the message "Path traversal outside repository root"
C3_RejectionSurface ==
  PathEscapes =>
    /\ last.out.exc = "MCPError"
    /\ last.out.code = INVALID_PARAMS
    /\ last.out.message = <<"Path traversal outside repository root">>

\* the handles registered for a source
HandlesFor(R, source) == {i \in DOMAIN R : R[i].source = source}

OpenSucceeded ==
  last.via = "logic" /\ last.op = "open_repository" /\ last.out.kind = "return"

\* C7 as claimed: a successful open_repository of a source that is already
\* open returns the id it has and leaves exactly one handle for the source
C7_OpenIdempotent ==
  (OpenSucceeded /\ HandlesFor(last.before.repos, last.source) # {}) =>
    /\ last.repo_id \in HandlesFor(last.before.repos, last.source)
    /\ Cardinality(HandlesFor(repos, last.source)) = 1

\* C7 as amended: every successful open_repository returns an id that was not
\* registered and adds one handle for the source, keeping the others
C7_OpenFresh ==
  OpenSucceeded =>
    /\ last.out.value = [id |-> ToString(last.repo_id)]
    /\ last.repo_id \notin DOMAIN last.before.repos
    /\ HandlesFor(repos, last.source) =
         HandlesFor(last.before.repos, last.source) \cup {last.repo_id}
    /\ \A i \in DOMAIN last.before.repos : repos[i] = last.before.repos[i]

\* the second successful open of one source: two handles for it
C7_Witness ==
  /\ OpenSucceeded
  /\ HandlesFor(last.before.repos, last.source) # {}
  /\ Cardinality(HandlesFor(repos, last.source)) = 2

\* the latest request reached call_tool with a known tool and valid arguments
Handled == last.via = "call_tool" /\ last.op \in ToolNames /\ last.valid

\* a collaborator (the repository, an analyzer, the provider) raised
CollaboratorFailed == last.out.kind = "raise" /\ last.out.ops # {}

WrappingTools ==
  {"open_repository", "search_code", "get_file_content", "extract_symbols",
   "get_code_summary"}

C9_UnknownRepository ==
  (last.via = "logic" /\ last.op \in RepoIdOps
   /\ last.repo_id \notin DOMAIN last.before.repos) =>
    /\ last.out.exc = "MCPError"
    /\ last.out.code = INVALID_PARAMS
    /\ last.out.message = <<"Repository ", ToString(last.repo_id), " not found">>
    /\ repos = last.before.repos
    /\ analyzers = last.before.analyzers

\* an unknown id passed to an analyzer-backed operation while a repository is open
C9_Witness ==
  /\ last.via = "logic"
  /\ last.op = "semantic_search"
  /\ last.repo_id \notin DOMAIN last.before.repos
  /\ DOMAIN repos # {}
  /\ last.out.kind = "raise"

\* the latest call was open_repository
OpenCalled == last.via = "logic" /\ last.op = "open_repository"

\* C29: the repository map and the analyzer map have the same keys in every
\* state; a successful open_repository adds exactly one id that was not
\* there and keeps every entry; a failed one, and every other operation,
\* leaves the keys as they were
C29_RegistryKeys ==
  /\ DOMAIN repos = DOMAIN analyzers
  /\ (OpenCalled /\ last.out.kind = "return") =>
       /\ last.repo_id \notin DOMAIN last.before.repos
       /\ DOMAIN repos = DOMAIN last.before.repos \cup {last.repo_id}
       /\ \A i \in DOMAIN last.before.repos :
            repos[i] = last.before.repos[i] /\ analyzers[i] = last.before.analyzers[i]
  /\ (OpenCalled /\ last.out.kind = "raise") =>
       repos = last.before.repos /\ analyzers = last.before.analyzers
  /\ ~OpenCalled => DOMAIN repos = DOMAIN last.before.repos

\* a second repository opened after an analyzer was built for the first
C29_Witness ==
  /\ OpenCalled /\ last.out.kind = "return"
  /\ \E i \in DOMAIN last.before.repos : last.before.analyzers[i] # {}
  /\ Cardinality(DOMAIN analyzers) = 2

SummarySucceeded ==
  last.via = "logic" /\ last.op = "get_code_summary" /\ last.out.kind = "return"

\* C10: a successful get_code_summary returns exactly {file} when no symbol
\* name is given (None or empty) and exactly {file, function, class} when one
\* is; function and class each hold their summarizer's result, or None when
\* that summarizer raised ValueError, independently of each other
C10_SummaryShape ==
  SummarySucceeded =>
    /\ last.out.value["file"] = "file summary"
    /\ last.symbol \in {NoSymbol, ""} => DOMAIN last.out.value = {"file"}
    /\ last.symbol \notin {NoSymbol, ""} =>
         /\ DOMAIN last.out.value = {"file", "function", "class"}
         /\ last.env.fn \in {"ok", "ValueError"}
         /\ last.env.cls \in {"ok", "ValueError"}
         /\ last.out.value["function"] =
              (IF last.env.fn = "ValueError" THEN "None" ELSE "function summary")
         /\ last.out.value["class"] =
              (IF last.env.cls = "ValueError" THEN "None" ELSE "class summary")

\* summarize_function raised ValueError and the class summary is still there
C10_Witness ==
  /\ SummarySucceeded
  /\ last.symbol = "sym"
  /\ last.env.fn = "ValueError"
  /\ last.out.value = [k \in {"file", "function", "class"} |->
                         CASE k = "file" -> "file summary"
                           [] k = "function" -> "None"
                           [] k = "class" -> "class summary"]

\* the first exception get_code_summary's inner handlers do not catch, "-"
\* when there is none
SummaryFailure ==
  CASE last.env.file # "ok" -> last.env.file
    [] last.env.file = "ok" /\ SymbolGiven(last.symbol)
       /\ last.env.fn \notin {"ok", "ValueError"} -> last.env.fn
    [] last.env.file = "ok" /\ SymbolGiven(last.symbol)
       /\ last.env.fn \in {"ok", "ValueError"}
       /\ last.env.cls \notin {"ok", "ValueError"} -> last.env.cls
    [] OTHER -> "-"

\* get_code_summary reached the Summarizer: the repository is open, the path
\* is inside it and the analyzer was constructed
SummaryAttempted ==
  /\ last.via = "logic"
  /\ last.op = "get_code_summary"
  /\ last.repo_id \in DOMAIN last.before.repos
  /\ IsWithin(resolve(last.before.repos[last.repo_id].repo_path, last.path),
              last.before.repos[last.repo_id].repo_path)
  /\ last.env.ctor = "ok"

\* C11: when summarize_file fails, or a symbol summary fails with anything
\* other than ValueError, get_code_summary raises MCPError(INVALID_PARAMS)
\* with the message of the original exception and returns no partial result
C11_SummaryFailureMapping ==
  (SummaryAttempted /\ SummaryFailure # "-") =>
    /\ last.out.kind = "raise"
    /\ last.out.exc = "MCPError"
    /\ last.out.code = INVALID_PARAMS
    /\ last.out.message = StrOf(SummaryFailure)
    /\ last.out.value = NoValue

\* the file summary succeeded, summarize_function raised ValueError and
\* summarize_class raised LLMError
C11_Witness ==
  /\ SummaryAttempted
  /\ last.symbol = "sym"
  /\ last.env.file = "ok"
  /\ last.env.fn = "ValueError"
  /\ last.env.cls = "LLMError"
  /\ last.out.kind = "raise"
  /\ Op("summarize_class", <<"r", "f">>) \in last.out.ops

(***************************************************************************)
(* SpecPrompt: one repository, get_prompt requests with every prompt name, *)
(* an unknown name, and arguments that are None, empty, complete or lack   *)
(* a key                                                                   *)
(***************************************************************************)
PromptGivens ==
  {{}, {"symbol_name"}, ArgKeys}
  \cup {ArgKeys \ {k} : k \in {"path_or_url", "repo_id", "query", "file_path"}}

PromptEnvs ==
  {AllOk, [AllOk EXCEPT !.repo = "KeyError"], [AllOk EXCEPT !.file = "OSError"]}

NextPrompt ==
  GetPrompt(PromptNames \cup {"no_such_prompt"}, OneRepo,
            PromptArguments(PromptGivens, 0..1, {InsidePath}), PromptEnvs)

SpecPrompt == InitMCP /\ [][NextPrompt]_vars

\* the last get_prompt request left the server state as it was
PromptLeftState ==
  /\ repos = last.before.repos
  /\ analyzers = last.before.analyzers
  /\ last.out.ops = {}

PromptRejected(message) ==
  /\ last.out.kind = "raise"
  /\ last.out.exc = "MCPError"
  /\ last.out.code = INVALID_PARAMS
  /\ last.out.message = message
  /\ PromptLeftState

\* C12: get_prompt raises MCPError(INVALID_PARAMS) "Arguments are required"
\* for None or empty arguments, "Missing required argument: <name>" when a
\* required argument of the named prompt is absent, and "Unknown prompt:
\* <name>" for a name outside the catalog with non-empty arguments; no
\* repository is opened and the state is unchanged
C12_PromptArgumentErrors ==
  last.via = "get_prompt" =>
    /\ Falsy(last.args) => PromptRejected(<<"Arguments are required">>)
    /\ (~Falsy(last.args) /\ last.op \in PromptNames
        /\ ~(PromptRequired(last.op) \subseteq last.args.given)) =>
         \E k \in PromptRequired(last.op) \ last.args.given :
           PromptRejected(<<"Missing required argument: ", k>>)
    /\ (~Falsy(last.args) /\ last.op \notin PromptNames) =>
         PromptRejected(<<"Unknown prompt: ", last.op>>)

\* a repository is open and search_repo arrives without its query
C12_Witness ==
  /\ last.via = "get_prompt"
  /\ last.op = "search_repo"
  /\ last.args.given = ArgKeys \ {"query"}
  /\ last.args.repo_id \in DOMAIN repos
  /\ last.out.message = <<"Missing required argument: ", "query">>

(***************************************************************************)
(* SpecSummarizer: a Summarizer constructed with an API key, in every      *)
(* scenario, asked for each of its three summaries                         *)
(***************************************************************************)
InitSummarizer ==
  /\ InitLogic
  /\ file_path = InsidePath
  /\ InitHTTP
  /\ scenario \in {sc \in Scenarios : sc.api_key = "set"}
  /\ summarized = NotSummarized
  /\ reviewer = NoReviewer
  /\ review = NoReview
  /\ cost_tracker = 0
  /\ parsed = NotParsed
  /\ InitCli

NextSummarizer ==
  \/ SummarizeFile
  \/ SummarizeFunction
  \/ SummarizeClass

SpecSummarizer == InitSummarizer /\ [][NextSummarizer]_vars

(***************************************************************************)
(* Properties of the Summarizer                                            *)
(***************************************************************************)
\* summarize_file was called on an existing file whose content is not blank
FileSummarized ==
  /\ summarized.op = "summarize_file"
  /\ scenario.exists
  /\ ~scenario.blank

\* the oversize placeholder of a text of N characters, ending in tail
Placeholder(what, tail) ==
  <<what, " content too large (", ToString(scenario.size), " characters) to summarize", tail>>

\* the client is obtained and the request goes out, unless the client cannot
\* be built or the OpenAI prompt count stops it
ProviderPathTaken ==
  \/ summarized.out.requests = 1
  \/ _get_llm_client(scenario).kind = "raise"
  \/ /\ scenario.config = "OpenAIConfig"
     /\ scenario.tokenizer = "available"
     /\ scenario.tokens > OPENAI_MAX_PROMPT_TOKENS

SymbolSummarized ==
  /\ summarized.op \in {"summarize_function", "summarize_class"}
  /\ scenario.exists
  /\ has_symbol(scenario, IF summarized.op = "summarize_function" THEN "function"
                          ELSE "class")

\* C14: when the matched symbol's code is longer than 50,000 characters,
\* summarize_function and summarize_class return an oversize placeholder,
\* raise nothing and send no request
C14_SymbolOversize ==
  (SymbolSummarized /\ scenario.size > 50000) =>
    /\ summarized.out.kind = "return"
    /\ Len(summarized.out.text) >= 2
    /\ summarized.out.text[2] = " content too large ("
    /\ summarized.out.requests = 0

\* the call got as far as the provider-specific branch
ReachedProvider ==
  /\ summarized.op # "-"
  /\ scenario.exists
  /\ summarized.op = "summarize_file" =>
       ~scenario.blank /\ scenario.size <= MAX_FILE_SUMMARIZE_CHARS
  /\ summarized.op # "summarize_file" =>
       SymbolSummarized /\ scenario.size <= MAX_CHARS_FOR_SUMMARY
  /\ _get_llm_client(scenario).kind = "return"

\* C15: if the provider returns no text or only whitespace, each operation
\* raises LLMError under every configuration and returns no string
C15_EmptyResponse ==
  (ReachedProvider /\ summarized.out.requests = 1
   /\ scenario.provider \in {"none", "whitespace"}) =>
    /\ summarized.out.kind = "raise"
    /\ summarized.out.exc = "LLMError"

\* the length of the prompt, which embeds the content
PromptChars == scenario.size

\* the token estimate of the prompt: the encoder's count, or a quarter of the
\* characters, rounded up, when there is no encoder
EstimatedTokens ==
  IF scenario.tokenizer = "available" THEN scenario.tokens
  ELSE (PromptChars + 3) \div 4

\* C16: under every configuration, with or without a tokenizer, a prompt
\* whose token estimate exceeds the ceiling of 15,000 makes the call fail
\* with PromptTooLarge, and no request is sent
C16_PromptCeiling ==
  (ReachedProvider /\ EstimatedTokens > 15000) =>
    /\ summarized.out.kind = "raise"
    /\ summarized.out.exc = "PromptTooLarge"
    /\ summarized.out.requests = 0

\* C17: when the provider blocks the prompt, each operation fails with an
\* error whose message carries the block reason and returns no value
C17_ProviderRefusal ==
  (ReachedProvider /\ summarized.out.requests = 1 /\ scenario.provider = "blocked") =>
    /\ summarized.out.kind = "raise"
    /\ \E i \in 1..Len(summarized.out.message) : summarized.out.message[i] = BlockReason

(***************************************************************************)
(* SpecHTTP: a client registering /r at two refs, deleting, and calling    *)
(* every id-bound endpoint on registered, deleted and unknown ids          *)
(***************************************************************************)
InitApp ==
  /\ InitLogic
  /\ file_path = InsidePath
  /\ InitHTTP
  /\ InitLib

HttpIds == {handle_id("/r", NoRef), handle_id("/r", "sha1"), UnknownId}

\* a file of the repository, the parent of the root, the sibling /rb, and
\* the symbolic link /r/l that points outside
HttpPaths ==
  {InsidePath, MkPath(FALSE, <<"..">>), MkPath(FALSE, <<"..", "rb">>),
   MkPath(FALSE, <<"l">>)}

CtorEnvs == {HttpOk, [HttpOk EXCEPT !.repo = "OSError"]}

CallFails(excs) == {HttpOk} \cup {[HttpOk EXCEPT !.call = e] : e \in excs}

HttpSummaryEnvs ==
  CallFails({"ValueError"})
  \cup {[HttpOk EXCEPT !.file = e] : e \in {"FileNotFoundError", "LLMError"}}
  \cup {[HttpOk EXCEPT !.fn = "SymbolNotFoundError", !.cls = e] :
          e \in {"ok", "SymbolNotFoundError"}}

NextHTTP ==
  \/ PostRepository({"/r"}, {NoRef, "sha1"}, CtorEnvs, {FALSE})
  \/ DeleteRepository(HttpIds)
  \/ HttpGetFileTree(HttpIds, CtorEnvs \cup CallFails({"OSError"}))
  \/ HttpGetFileContent(HttpIds, HttpPaths,
                        CallFails({"FileNotFoundError", "OSError", "ValueError"}))
  \/ HttpSearchText(HttpIds, CallFails({"OSError"}))
  \/ HttpExtractSymbols(HttpIds, HttpPaths \cup {None}, CallFails({"ValueError"}))
  \/ HttpFindSymbolUsages(HttpIds, HttpPaths \cup {None}, CallFails({"OSError"}))
  \/ HttpGetFullIndex(HttpIds, CallFails({"OSError"}))
  \/ HttpGetSummary(HttpIds, HttpPaths, {NoSymbol, "sym"}, HttpSummaryEnvs)
  \/ HttpSemanticSearch(HttpIds, CallFails({"ImportError", "ValueError"}))
  \/ HttpAnalyzeDependencies(HttpIds, HttpPaths \cup {None},
                             CallFails({"ValueError"})
                             \cup {[HttpOk EXCEPT !.file = "FileNotFoundError"]})

SpecHTTP == InitApp /\ [][NextHTTP]_vars

(***************************************************************************)
(* SpecRegistry: a client registering /r under both spellings and every    *)
(* ref, with deletes and reads in between                                  *)
(***************************************************************************)
RegistryIds == {handle_id(s, r) : s \in HttpSources, r \in Refs} \cup {UnknownId}

NextRegistry ==
  \/ PostRepository(HttpSources, Refs, {HttpOk}, BOOLEAN)
  \/ DeleteRepository(RegistryIds)
  \/ HttpGetFileTree(RegistryIds, {HttpOk})

SpecRegistry == InitApp /\ [][NextRegistry]_vars

(***************************************************************************)
(* Properties of the HTTP gateway                                          *)
(***************************************************************************)
\* the endpoints addressed by a repository id
IdBound ==
  {"get_file_tree", "get_file_content", "search_text", "extract_symbols",
   "find_symbol_usages", "get_full_index", "get_summary", "semantic_search",
   "analyze_dependencies", "delete_repo"}

\* the endpoints whose request carries a path
HttpPathEndpoints ==
  {"get_file_content", "extract_symbols", "find_symbol_usages", "get_summary",
   "analyze_dependencies"}

Contains(detail, text) == \E i \in 1..Len(detail) : detail[i] = text

\* the last request carried, for a registered id, a path that resolves
\* outside the repository root
HttpPathEscapes ==
  /\ resp.endpoint \in HttpPathEndpoints
  /\ resp.registered
  /\ ~resp.path.none
  /\ ~IsWithin(resolve(RepoRoot, resp.path), RepoRoot)

\* C2: a request to a registered id whose path resolves outside the
\* repository root is answered 400 with a message containing "Path
\* traversal", so that nothing derived from a file outside the root is returned
C2_HttpPathSafety ==
  HttpPathEscapes =>
    /\ resp.status = 400
    /\ \/ Contains(resp.detail, "Path traversal")
       \/ Contains(resp.detail, TraversalMsg[1])

\* C4: a request to an id-bound endpoint with an id that is not registered
\* is answered 404 "Repo not found" and performs no repository operation
C4_UnknownHandle ==
  (resp.endpoint \in IdBound /\ ~resp.registered) =>
    /\ resp.status = 404
    /\ resp.detail = <<"Repo not found">>
    /\ resp.ops = {}

C4_Witness ==
  /\ resp.endpoint = "get_summary"
  /\ resp.repo_id = UnknownId
  /\ store # <<>>
  /\ resp.status = 404

\* C5: once DELETE has answered 204 for an id, every request to an id-bound
\* endpoint with that id, a second DELETE included, is answered 404 until a
\* POST registers the id's (source, ref) again
C5_DeleteOrdering ==
  (resp.endpoint \in IdBound /\ resp.was_deleted) => resp.status = 404

C5_Witness ==
  /\ resp.endpoint = "delete_repo"
  /\ resp.was_deleted
  /\ resp.status = 404
  /\ store # <<>>

\* a successful POST, compared with an earlier successful POST of the same source
TwoPosts ==
  /\ resp.endpoint = "open_repo"
  /\ resp.status = 201
  /\ resp.remembered # NoPost
  /\ resp.remembered.source = resp.source

HttpScenarios ==
  {sc \in Scenarios :
     /\ sc.tokenizer = "available" /\ sc.tokens = OPENAI_MAX_PROMPT_TOKENS
     /\ ~sc.blank /\ sc.size = 1
     /\ sc.provider \in {"text", "none"}}

InitHttpSummary ==
  /\ InitLogic
  /\ file_path = InsidePath
  /\ InitHTTP
  /\ scenario \in HttpScenarios
  /\ summarized = NotSummarized
  /\ reviewer = NoReviewer
  /\ review = NoReview
  /\ cost_tracker = 0
  /\ parsed = NotParsed
  /\ InitCli

NextHttpSummary ==
  \/ PostRepository({"/r"}, {NoRef}, {HttpOk}, {FALSE})
  \/ HttpGetSummary({handle_id("/r", NoRef), UnknownId}, {InsidePath},
                    {NoSymbol, "sym"}, {SummarizerEnv(scenario)})

SpecHttpSummary == InitHttpSummary /\ [][NextHttpSummary]_vars

\* GET /summary arrived for a registered repository
SummaryRequested == resp.endpoint = "get_summary" /\ resp.registered

\* the request gets as far as needing the provider's client
NeedsClient ==
  /\ scenario.exists
  /\ SymbolGiven(resp.symbol) => has_symbol(scenario, "function")

\* the provider is missing or not configured
ProviderUnconfigured ==
  \/ scenario.api_key = "unset"
  \/ scenario.sdk # "installed" /\ NeedsClient

\* C18: GET /summary on a registered repository whose provider has no API
\* key or whose SDK is not installed is answered 501
C18_UnconfiguredProvider ==
  (SummaryRequested /\ ProviderUnconfigured) => resp.status = 501

\* C19: GET /summary with a symbol_name that is neither a function nor a
\* class of an existing file is answered 404
C19_UnknownSymbol ==
  (SummaryRequested /\ SymbolGiven(resp.symbol) /\ scenario.api_key = "set"
   /\ scenario.exists /\ ~scenario.found) =>
    resp.status = 404

\* the symbol asked for is a class of the file, and nothing else is in the
\* way of a summary
ClassSymbolAsked ==
  /\ SummaryRequested /\ SymbolGiven(resp.symbol)
  /\ scenario.api_key = "set" /\ scenario.sdk = "installed"
  /\ scenario.exists /\ scenario.found /\ scenario.symbol_type = "CLASS"
  /\ scenario.provider = "text"

\* C26: GET /summary with a symbol_name that names a class and no function
\* is answered 200 with the class summary
C26_ClassFallback ==
  ClassSymbolAsked =>
    /\ resp.status = 200
    /\ \E op \in resp.ops : op.name = "summarize_class"

(***************************************************************************)
(* SpecReview: runs of SimplePRReviewer.review_pr_simple against every     *)
(* behaviour of GitHub and of the provider                                 *)
(***************************************************************************)
InitReview ==
  /\ InitLogic
  /\ file_path = InsidePath
  /\ InitHTTP
  /\ scenario = Nominal
  /\ summarized = NotSummarized
  /\ reviewer \in Reviewers
  /\ review = NoReview
  /\ cost_tracker = 0
  /\ parsed = NotParsed
  /\ InitCli

NextReview == ReviewPrSimple(Runs)

SpecReview == InitReview /\ [][NextReview]_vars

FetchCalls == {"get_pr_details", "get_pr_files", "get_pr_diff"}

\* the i-th request of the run was a GitHub fetch that failed
FailedFetchAt(i) ==
  /\ review.log[i].call \in FetchCalls
  /\ Failed(review.log[i].outcome)

\* C20: a run in which a GitHub fetch (metadata, file list or diff) failed
\* raises, returns no review text, and sends no LLM request after the
\* failed fetch
C20_FetchFailuresFatal ==
  \A i \in DOMAIN review.log :
    FailedFetchAt(i) =>
      /\ review.kind = "raise"
      /\ review.comment = <<>>
      /\ \A j \in DOMAIN review.log : j > i => review.log[j].call # "llm"

\* the provider call of the run raised
ProviderCallRaised ==
  \E i \in DOMAIN review.log :
    review.log[i].call = "llm" /\ Failed(review.log[i].outcome)

\* C21: a run whose LLM provider call raised ends in failure and returns no
\* review comment
C21_ProviderFailureFatal ==
  ProviderCallRaised => (review.kind = "raise" /\ review.comment = <<>>)

(***************************************************************************)
(* SpecValidation: runs of review_pr_simple that get as far as the         *)
(* provider, on a PR that may change under the run, with a validator that  *)
(* may raise                                                               *)
(***************************************************************************)
ValidationRuns ==
  {run \in AllRuns :
     /\ run.pr_input = PullRequestUrl
     /\ run.details = "ok" /\ run.files = "ok"}

NextValidation == ReviewPrSimple(ValidationRuns)

SpecValidation == InitReview /\ [][NextValidation]_vars

\* analyze_pr_simple returned an analysis to the run
AnalysisObtained ==
  \E i \in DOMAIN review.log : review.log[i].call = "llm"

\* C22: once the analysis has been obtained the run returns the review
\* comment, whatever the quality score and whatever the validation step does
C22_ValidationNeverFails ==
  AnalysisObtained => (review.kind = "return" /\ review.comment # <<>>)

\* a low score and a raising validation have both been survived
C22_Witness ==
  /\ AnalysisObtained
  /\ review.kind = "return"
  /\ review.run.validator = "Exception"
  /\ review.run.score < LOW_QUALITY_TENTHS
  /\ review.warnings[1] = "Could not validate review quality: "

(***************************************************************************)
(* SpecParse: parse_pr_url on every text of up to MaxUrlLen pieces, and a  *)
(* run of review_pr_simple started with it                                 *)
(***************************************************************************)
InitParse ==
  /\ InitLogic
  /\ file_path = InsidePath
  /\ InitHTTP
  /\ scenario = Nominal
  /\ summarized = NotSummarized
  /\ reviewer = [provider |-> "anthropic", sdk |-> "installed"]
  /\ review = NoReview
  /\ cost_tracker = 0
  /\ parsed \in {[NotParsed EXCEPT !.input = text] : text \in UrlTexts}
  /\ InitCli

\* a run on the text at hand in which GitHub, provider and validator answer
RunsOn(text) ==
  {[pr_input |-> text, details |-> "ok", files |-> "ok", diff |-> "ok",
    diff_again |-> "ok", pr_changed |-> FALSE, llm |-> "text", validator |-> "ok",
    score |-> LOW_QUALITY_TENTHS]}

NextParse ==
  \/ ParsePrUrl
  \/ ReviewPrSimple(RunsOn(parsed.input))

SpecParse == InitParse /\ [][NextParse]_vars

\* what the pattern gives when the whole text has to have its form
parse_pr_url_whole_text(text) ==
  LET owner_end == SkipWhile(text, 2, NotSlash)
      repo_end == SkipWhile(text, owner_end + 1, NotSlash)
      number_end == SkipWhile(text, repo_end + 1, Digits)
  IN  IF /\ At(text, 1) = GitHubHost
         /\ owner_end > 2 /\ At(text, owner_end) = "/"
         /\ repo_end > owner_end + 1 /\ At(text, repo_end) = "/pull/"
         /\ number_end > repo_end + 1
         /\ number_end = Len(text) + 1
      THEN Parsed(SubSeq(text, 2, owner_end - 1), SubSeq(text, owner_end + 1, repo_end - 1),
                  SubSeq(text, repo_end + 1, number_end - 1))
      ELSE InvalidUrl

\* a run was started with an input parse_pr_url rejects
RejectedRun ==
  review.kind # "none" /\ parse_pr_url_whole_text(review.run.pr_input).kind = "raise"

\* C23: parse_pr_url returns (owner, repo, n) exactly for the texts whose
\* whole form is https://github.com/<owner>/<repo>/pull/<n> and raises for
\* every other text; a run started with a rejected text sends no request
C23_PrUrlParsing ==
  /\ parsed.called => parsed.out = parse_pr_url_whole_text(parsed.input)
  /\ RejectedRun => (review.kind = "raise" /\ review.log = <<>>)

(***************************************************************************)
(* SpecCli: every `kit review` command line in every environment           *)
(***************************************************************************)
InitCommand ==
  /\ InitLogic
  /\ file_path = InsidePath
  /\ InitHTTP
  /\ scenario = Nominal
  /\ summarized = NotSummarized
  /\ reviewer = NoReviewer
  /\ review = NoReview
  /\ cost_tracker = 0
  /\ parsed = NotParsed
  /\ invocation \in [inv : Invocations, env : CliEnvs]
  /\ cli = NotRun

NextCli ==
  \/ ReviewPr
  \/ DebugSimple

SpecCli == InitCommand /\ [][NextCli]_vars

\* C24: with --dry-run or --plain, a reviewer that is constructed and run
\* is given post_as_comment = FALSE, whatever the file and the other flags say
C24_NoPostingWhenDryOrPlain ==
  (cli.constructed /\ (invocation.inv.dry_run \/ invocation.inv.plain)) =>
    ~cli.config.post_as_comment

\* a plain run with a model override on a file that asks for posting
C24_Witness ==
  /\ cli.constructed /\ cli.code = 0
  /\ invocation.inv.plain /\ ~invocation.inv.dry_run
  /\ invocation.inv.model # NoOption /\ invocation.inv.agentic
  /\ invocation.env.post_as_comment
  /\ ~cli.config.post_as_comment

\* a review was asked for in plain mode and the command succeeded
PlainSuccess ==
  /\ cli.ran /\ cli.code = 0
  /\ invocation.inv.kind = "review" /\ invocation.inv.plain

\* C25: a successful `kit review --plain` writes the review content to
\* standard output and nothing else
C25_PlainIsSilent ==
  PlainSuccess => cli.stdout = <<"comment">>

\* the provider detected from --model
DetectedProvider == _detect_provider_from_model(invocation.inv.model)

\* the command got to the model override and the detected provider is not
\* the configured one
ProviderSwitch ==
  /\ cli.ran /\ invocation.inv.kind = "review"
  /\ invocation.env.file = "ok"
  /\ invocation.inv.priority # "urgent"
  /\ invocation.inv.model # NoOption
  /\ DetectedProvider # NoOption
  /\ DetectedProvider # invocation.env.provider

CloudKeys == {"KIT_ANTHROPIC_TOKEN", "KIT_OPENAI_TOKEN"}

CredentialOf(provider) ==
  IF provider = "anthropic" THEN "KIT_ANTHROPIC_TOKEN" ELSE "KIT_OPENAI_TOKEN"

\* the command stopped asking for a cloud provider's API key
CloudKeyDemanded ==
  \E i \in DOMAIN cli.stdout :
    cli.stdout[i] \in {"Set KIT_ANTHROPIC_TOKEN environment variable",
                       "Set KIT_OPENAI_TOKEN environment variable"}

\* C30: when --model switches the provider, the command either exits 1
\* before a reviewer runs, or the reviewer gets the detected provider with
\* that provider's own credential; a model routed to the local provider
\* neither takes nor needs a cloud provider's API key
C30_ModelOverrideConsistent ==
  ProviderSwitch =>
    /\ \/ cli.code = 1 /\ ~cli.constructed
       \/ /\ cli.constructed
          /\ cli.config.provider = DetectedProvider
          /\ DetectedProvider # "ollama" =>
               cli.config.api_key = CredentialOf(DetectedProvider)
    /\ DetectedProvider = "ollama" =>
         /\ ~CloudKeyDemanded
         /\ cli.config.api_key \notin CloudKeys

\* the validation step scored the analysis against a diff
ValidationRan == review.kind = "return" /\ review.validated

\* C27: the diff the validation step uses is the diff that was put into the
\* LLM prompt, also when the PR changes or a diff fetch fails in between
C27_OneDiffPerRun ==
  ValidationRan => review.validated_diff = review.prompt_diff

\* C28: the usage reported at the end of a run counts exactly the LLM calls
\* of that run that returned a response, on a fresh reviewer and on one
\* that has run before
C28_CostPerRun ==
  review.kind = "return" => review.cost_summary = review.usage

=============================================================================
